---- MODULE Spec2Model ----
(***************************************************************************)
(* AutoPkg Recipe Finder (src/get-autopkg-recipe/find-autopkg-recipe.py):  *)
(* the batch loop process_applications, process_application,               *)
(* find_best_recipe, search_autopkg_web, download_recipe_file and          *)
(* _download_recipe_chain, as a single-threaded state machine.             *)
(*                                                                         *)
(* Strings are sequences of tokens (a token stands for a run of            *)
(* characters), so that endswith, lower, "in", re.sub, str.replace, join   *)
(* and the pathlib operators are computed, not assumed.                    *)
(*                                                                         *)
(* The catalog (autopkgweb.com) and GitHub are the environment: a search   *)
(* answers with any list of at most MaxHits distinct catalog rows that     *)
(* match the query and the type filter, every HTTP attempt may fail, and   *)
(* a search may raise an exception that is not a RequestException.         *)
(***************************************************************************)
EXTENDS Integers, Sequences, FiniteSets, TLC

\* ---------------------------------------------------------------- bounds
MaxApps == 2

MaxHits == 2

\* rows of a page given to _parse_search_results
MaxRows == 3

\* directories given to one get_contents call
MaxFolders == 2

\* ------------------------------------------------------- configuration
\* the priority list written in the wrong order
RECIPE_TYPES_PRIORITY_Reversed == <<"download", "munki">>

\* the list cut down to its first type
RECIPE_TYPES_PRIORITY_MunkiOnly == <<"munki">>

RECIPE_TYPES_PRIORITY == <<"munki", "download">>

RECIPE_SUFFIXES == <<".download", ".munki", ".pkg", ".install", ".jss", ".jamf">>

\* one attempt fewer than configured
MAX_RETRIES_Two == 3 - 1

MAX_RETRIES == 3

RETRY_DELAY == 2

\* REQUEST_DELAY = 0.5 (seconds), in tenths of a second
REQUEST_DELAY == 5

\* the clock counts tenths of a second
TicksPerSecond == 10

\* the retry sleep taken with the wrong constant
RetrySleep_RequestDelay == REQUEST_DELAY

\* time.sleep(RETRY_DELAY) on the clock
RetrySleep == RETRY_DELAY * TicksPerSecond

\* ------------------------------------------------------ string helpers
\* str.lower, token by token
LowerTok(t) ==
    CASE t = "-DEPRECATED" -> "-deprecated"
      [] t = "Foo" -> "foo"
      [] t = "Pro" -> "pro"
      [] t = "Base" -> "base"
      [] t = "Self" -> "self"
      [] OTHER -> t

\* the lower-case tokens that contain the word "deprecated"
DeprecatedTokens == {"deprecated", "-deprecated"}

\* "deprecated" in name.lower()
ContainsDeprecated(name) == \E k \in DOMAIN name : LowerTok(name[k]) \in DeprecatedTokens

\* the characters re.sub replaces in sanitize_name
UnsafeChars == {"<", ">", ":", "\"", "/", "\\", "|", "?", "*"}

sanitize_name(name) == [k \in DOMAIN name |-> IF name[k] \in UnsafeChars THEN "_" ELSE name[k]]

EndsWith(name, suffix) == name # <<>> /\ name[Len(name)] = suffix

RECURSIVE StripFrom(_, _)
StripFrom(name, k) ==
    IF k > Len(RECIPE_SUFFIXES) THEN name
    ELSE IF EndsWith(name, RECIPE_SUFFIXES[k]) THEN SubSeq(name, 1, Len(name) - 1)
    ELSE StripFrom(name, k + 1)

strip_recipe_suffix(name) == StripFrom(name, 1)

\* sep.join(list)
RECURSIVE Join(_, _)
Join(list, sep) ==
    IF list = <<>> THEN <<>>
    ELSE IF Len(list) = 1 THEN list[1]
    ELSE list[1] \o <<sep>> \o Join(Tail(list), sep)

\* ------------------------------------------------------------- pathlib
output_dir == <<"out">>

IsAbsolute(p) == p # <<>> /\ p[1] = "/"

\* Path.__truediv__: an absolute right operand replaces the left one
PathJoin(a, b) == IF IsAbsolute(b) THEN b ELSE a \o <<"/">> \o b

IsUnder(p, base) ==
    /\ Len(p) > Len(base)
    /\ SubSeq(p, 1, Len(base)) = base
    /\ p[Len(base) + 1] = "/"

\* Path.relative_to, defined when IsUnder (ValueError otherwise)
RelativeTo(p, base) == SubSeq(p, Len(base) + 2, Len(p))

\* output_dir / f"com.github.autopkg.{repo}" / sanitize(strip(name)) / recipe_file
RecipePath(r) ==
    PathJoin(PathJoin(PathJoin(output_dir, <<"com.github.autopkg.">> \o r.repo),
                      sanitize_name(strip_recipe_suffix(r.name))),
             r.recipe_file)

\* ------------------------------------------------- the remote catalog
NameFooMunki == <<"Foo", ".munki">>
NameFooDownload == <<"Foo", ".download">>
NameBaseDownload == <<"Base", ".download">>
NameFooDeprecated == <<"Foo", "-DEPRECATED", ".munki">>
NameFooPro == <<"Foo", "/", "Pro", ".munki">>
NameSelfMunki == <<"Self", ".munki">>

\* the rows of the catalog's result table; stars is the catalog's popularity
\* figure, which the page may show but no cell read by the parser holds
Catalog ==
    { [name |-> NameFooMunki, badge |-> "munki", repo |-> <<"recipes-a">>,
       file |-> <<"Foo.munki.recipe">>, href |-> <<"github.com", "/blob/", "f1">>, stars |-> 5],
      [name |-> NameFooDownload, badge |-> "download", repo |-> <<"recipes-a">>,
       file |-> <<"Foo.download.recipe">>, href |-> <<"github.com", "/blob/", "f2">>, stars |-> 50],
      [name |-> NameBaseDownload, badge |-> "download", repo |-> <<"recipes-b">>,
       file |-> <<"Base.download.recipe">>, href |-> <<"github.com", "/blob/", "f3">>, stars |-> 7],
      [name |-> NameFooDeprecated, badge |-> "munki", repo |-> <<"recipes-b">>,
       file |-> <<"FooOld.munki.recipe">>, href |-> <<"github.com", "/blob/", "f4">>, stars |-> 100],
      [name |-> NameFooPro, badge |-> "munki", repo |-> <<"recipes-c">>,
       file |-> <<"/", "FooPro.munki.recipe">>, href |-> <<"github.com", "/blob/", "f5">>, stars |-> 50],
      [name |-> NameSelfMunki, badge |-> "munki", repo |-> <<"recipes-c">>,
       file |-> <<"Self.munki.recipe">>, href |-> <<"github.com", "/blob/", "f6">>, stars |-> 1] }

\* url.replace('github.com', 'raw.githubusercontent.com').replace('/blob/', '/')
RawUrl(url) ==
    [k \in DOMAIN url |->
        IF url[k] = "github.com" THEN "raw.githubusercontent.com"
        ELSE IF url[k] = "/blob/" THEN "/" ELSE url[k]]

\* the text served for a raw URL: the parent references it holds, in the
\* plist form (<key>ParentRecipe</key><string>..</string>) and in the yaml
\* form (ParentRecipe: ..), each in order of occurrence
RemoteText(raw) ==
    IF Len(raw) # 3 \/ raw[1] # "raw.githubusercontent.com" \/ raw[2] # "/"
    THEN [plist |-> <<>>, yaml |-> <<>>]
    ELSE CASE raw[3] = "f1" -> [plist |-> <<NameFooDownload>>, yaml |-> <<>>]
           [] raw[3] = "f2" -> [plist |-> <<NameBaseDownload>>, yaml |-> <<>>]
           [] raw[3] = "f3" -> [plist |-> <<>>, yaml |-> <<NameBaseDownload>>]
           [] raw[3] = "f6" -> [plist |-> <<NameSelfMunki>>, yaml |-> <<NameFooDeprecated>>]
           [] OTHER -> [plist |-> <<>>, yaml |-> <<>>]

\* the catalog matches a query that occurs in the recipe name
Matches(h, q) ==
    \E k \in 1..(Len(h.name) - Len(q) + 1) : SubSeq(h.name, k, k + Len(q) - 1) = q

Matching(q, type) == {h \in Catalog : Matches(h, q) /\ (type = "" \/ h.badge = type)}

\* the result pages the catalog may answer with
SearchResponses(q, type) ==
    {s \in UNION {[1..n -> Matching(q, type)] : n \in 0..MaxHits} :
        \A a, b \in DOMAIN s : a # b => s[a] # s[b]}

\* --------------------------------------------------------------- parser
\* dict.get(key, default); also "x.get_text() if x else default" for an
\* element of a table row that may be missing
Get(d, key, default) == IF key \in DOMAIN d THEN d[key] ELSE default

\* len(row.find_all('td')); a row of Catalog has its five cells
CellCount(tr) == Get(tr, "cells", 5)

\* a call on the row's markup raises inside the try block
RowRaises(tr) == Get(tr, "raises", FALSE)

\* the type taken from the name's suffix when the row has no badge
ParseRow_TypeFromSuffix(h) ==
    [name |-> h.name,
     type |-> IF "badge" \in DOMAIN h THEN h.badge
              ELSE IF h.name # strip_recipe_suffix(h.name) THEN h.name[Len(h.name)] ELSE "",
     description |-> Get(h, "desc", <<>>), repo |-> Get(h, "repo", <<>>),
     recipe_file |-> Get(h, "file", <<>>), recipe_file_url |-> Get(h, "href", <<>>),
     deprecated |-> ContainsDeprecated(h.name)]

\* Recipe(...) as built by _parse_search_results for one table row: the text
\* of each element, or the empty string when the element is missing
ParseRow(h) ==
    [name |-> h.name, type |-> Get(h, "badge", ""),
     description |-> Get(h, "desc", <<>>), repo |-> Get(h, "repo", <<>>),
     recipe_file |-> Get(h, "file", <<>>), recipe_file_url |-> Get(h, "href", <<>>),
     deprecated |-> ContainsDeprecated(h.name)]

\* the loop over the rows: a row with fewer than five cells is passed over,
\* a row whose parsing raises is logged and left out
RECURSIVE _parse_search_results(_)
_parse_search_results(page) ==
    IF page = <<>> THEN <<>>
    ELSE (IF CellCount(Head(page)) < 5 \/ RowRaises(Head(page))
          THEN <<>> ELSE <<ParseRow(Head(page))>>)
         \o _parse_search_results(Tail(page))

\* get_parent_recipes: re.search keeps the first match of each pattern
get_parent_recipes(content) ==
    (IF content.plist # <<>> THEN <<content.plist[1]>> ELSE <<>>)
    \o (IF content.yaml # <<>> THEN <<content.yaml[1]>> ELSE <<>>)

NotDeprecated(r) == ~r.deprecated

\* the deprecation filter left out
ValidRecipes_NoFilter(recipes) == recipes

\* valid_recipes = [r for r in recipes if not r.deprecated]
ValidRecipes(recipes) == SelectSeq(recipes, NotDeprecated)

\* the last valid recipe returned instead of the first
FirstValid_Last(recipes) == ValidRecipes(recipes)[Len(ValidRecipes(recipes))]

\* return valid_recipes[0]
FirstValid(recipes) == ValidRecipes(recipes)[1]

\* ---------------------------------------------------------------- state
AppNames == {"", "Foo", "Self"}

NoRecipe ==
    [name |-> <<>>, type |-> "", description |-> <<>>, repo |-> <<>>, recipe_file |-> <<>>,
     recipe_file_url |-> <<>>, deprecated |-> FALSE]

NoResult ==
    [application |-> "", recipe_name |-> <<>>, recipe_type |-> "", repo |-> <<>>,
     found |-> FALSE, downloaded |-> FALSE, downloaded_files |-> <<>>,
     local_paths |-> <<>>, error |-> <<>>]

\* Python's None where a dict is expected
None == [none |-> TRUE]

\* None as the value of a dict entry that holds a text
NoValue == <<"None">>

\* recipe_result before create_recipes was called
NoRecipeResult == [success |-> FALSE, created_recipes |-> <<>>]

\* the dict {}
EmptyDict == [k \in {} |-> k]

VARIABLES
    apps,              \* the input list: the "Application" value of each row
    results,           \* process_applications: results
    stats,             \* self.stats
    disk,              \* the files under (or outside) the output tree, path -> text
    pc,                \* where the program is
    i,                 \* number of applications already handled by the batch loop
    app_name,          \* process_application: app_name
    type_idx,          \* find_best_recipe: position in RECIPE_TYPES_PRIORITY
    ctx,               \* who called search/download: "best", "root" or "parent"
    query, stype,      \* search_autopkg_web: app_name, recipe_type
    attempt,           \* the retry loops' attempt
    recipes,           \* the list the last search returned
    recipe,            \* process_application: recipe
    target,            \* the recipe whose file is being downloaded
    dl_ok,             \* the value the last download_recipe_file returned
    downloaded_files, local_paths,   \* _download_recipe_chain's lists
    parents, p_idx,    \* the loop over get_parent_recipes(content)
    searches,          \* the searches completed for the current application
    fetches,           \* the downloads completed for the current application
    ret,               \* the ProcessingResult process_application returns
    raised,            \* an exception left the try block of the current application
    slept,             \* time slept since the last request (catalog, or AI service) was made
    enable_last_mile,      \* main: enable_last_mile
    perplexity_api_key,    \* main: perplexity_api_key is not the empty string
    apps_without_recipes,  \* main: apps_without_recipes
    lm_i,                  \* process_last_mile_apps: rows of the loop already handled
    last_mile_results,     \* process_last_mile_apps: results
    download_info,         \* LastMileProcessor.process_application: download_info
    polls,                 \* find_download_url: status requests made
    recipe_result,         \* LastMileProcessor.process_application: recipe_result
    calls,                 \* the collaborator calls made by the last-mile run
    html,                  \* _parse_search_results: the rows of the page being parsed
    rows_done,             \* _parse_search_results: rows of the loop already handled
    paths,                 \* get_contents: the directories given, each with its files
    return_dict,           \* get_contents: return_dict
    paths_done             \* get_contents: directories of the loop already handled

vars == <<apps, results, stats, disk, pc, i, app_name, type_idx, ctx, query, stype,
          attempt, recipes, recipe, target, dl_ok, downloaded_files, local_paths,
          parents, p_idx, searches, fetches, ret, raised, slept,
          enable_last_mile, perplexity_api_key, apps_without_recipes, lm_i,
          last_mile_results, download_info, polls, recipe_result, calls,
          html, rows_done, paths, return_dict, paths_done>>

\* the variables of a get_contents call
mergeVars == <<paths, return_dict, paths_done>>

\* the variables of a _parse_search_results call followed row by row
parseVars == <<html, rows_done>>

\* the variables of the last-mile step of main
lmVars == <<enable_last_mile, perplexity_api_key, apps_without_recipes, lm_i,
            last_mile_results, download_info, polls, recipe_result, calls>>

\* the variables of the finder that the last-mile step leaves alone
finderVars == <<apps, stats, i, app_name, type_idx, ctx, query, stype, attempt, recipes,
                recipe, target, dl_ok, downloaded_files, local_paths, parents, p_idx,
                searches, fetches, ret, raised, html, rows_done, paths, return_dict,
                paths_done>>

batchVars == <<apps, results, i>>
searchVars == <<query, stype, attempt, recipes>>
chainVars == <<target, dl_ok, downloaded_files, local_paths, parents, p_idx>>

Init ==
    /\ apps \in UNION {[1..n -> AppNames] : n \in 0..MaxApps}
    /\ results = <<>>
    /\ stats = [total |-> 0, found |-> 0, downloaded |-> 0, errors |-> 0]
    /\ disk = <<>>
    /\ pc = "loop"
    /\ i = 0
    /\ app_name = ""
    /\ type_idx = 0
    /\ ctx = ""
    /\ query = <<>>
    /\ stype = ""
    /\ attempt = 0
    /\ recipes = <<>>
    /\ recipe = NoRecipe
    /\ target = NoRecipe
    /\ dl_ok = FALSE
    /\ downloaded_files = <<>>
    /\ local_paths = <<>>
    /\ parents = <<>>
    /\ p_idx = 0
    /\ searches = <<>>
    /\ fetches = <<>>
    /\ ret = NoResult
    /\ raised = FALSE
    /\ slept = 0
    /\ enable_last_mile = FALSE
    /\ perplexity_api_key = FALSE
    /\ apps_without_recipes = <<>>
    /\ lm_i = 0
    /\ last_mile_results = <<>>
    /\ download_info = None
    /\ polls = 0
    /\ recipe_result = NoRecipeResult
    /\ calls = <<>>
    /\ html = <<>>
    /\ rows_done = 0
    /\ paths = <<>>
    /\ return_dict = EmptyDict
    /\ paths_done = 0

\* ------------------------------------------------- process_application
UnknownResult ==
    [application |-> "Unknown", recipe_name |-> <<"Not Found">>, recipe_type |-> "N/A",
     repo |-> <<"N/A">>, found |-> FALSE, downloaded |-> FALSE,
     downloaded_files |-> <<>>, local_paths |-> <<>>,
     error |-> <<"No application name provided">>]

NotFoundResult(app) ==
    [application |-> app, recipe_name |-> <<"Not Found">>, recipe_type |-> "N/A",
     repo |-> <<"N/A">>, found |-> FALSE, downloaded |-> FALSE,
     downloaded_files |-> <<>>, local_paths |-> <<>>, error |-> <<>>]

\* downloaded set without looking at the list of downloaded files
FoundResult_AlwaysDownloaded(app, r, files, lpaths) ==
    [application |-> app, recipe_name |-> r.name, recipe_type |-> r.type,
     repo |-> r.repo, found |-> TRUE, downloaded |-> TRUE,
     downloaded_files |-> files, local_paths |-> lpaths, error |-> <<>>]

FoundResult(app, r, files, lpaths) ==
    [application |-> app, recipe_name |-> r.name, recipe_type |-> r.type,
     repo |-> r.repo, found |-> TRUE, downloaded |-> files # <<>>,
     downloaded_files |-> files, local_paths |-> lpaths, error |-> <<>>]

ErrorResult(app, msg) ==
    [application |-> app, recipe_name |-> <<"Error">>, recipe_type |-> "N/A",
     repo |-> <<"N/A">>, found |-> FALSE, downloaded |-> FALSE,
     downloaded_files |-> <<>>, local_paths |-> <<>>, error |-> <<msg>>]

\* the exception is counted but not contained: the batch loop ends
HandleException_Abort(msg) ==
    /\ stats' = [stats EXCEPT !.errors = @ + 1]
    /\ ret' = ErrorResult(app_name, msg)
    /\ pc' = "done"

\* the except clause of process_application
HandleException(msg) ==
    /\ stats' = [stats EXCEPT !.errors = @ + 1]
    /\ ret' = ErrorResult(app_name, msg)
    /\ pc' = "return"

\* total counted before the name is looked at
ProcessApplication_CountsUnnamed ==
    /\ pc = "loop"
    /\ i < Len(apps)
    /\ stats' = [stats EXCEPT !.total = @ + 1]
    /\ IF apps[i + 1] = ""
       THEN /\ ret' = UnknownResult
            /\ pc' = "return"
            /\ UNCHANGED <<app_name, type_idx, ctx, query, stype, attempt>>
       ELSE /\ app_name' = apps[i + 1]
            /\ type_idx' = 1
            /\ ctx' = "best"
            /\ query' = <<apps[i + 1]>>
            /\ stype' = RECIPE_TYPES_PRIORITY[1]
            /\ attempt' = 0
            /\ pc' = "search"
            /\ UNCHANGED ret
    /\ UNCHANGED <<batchVars, disk, recipes, recipe, chainVars, searches, fetches>>
    /\ UNCHANGED raised
    /\ UNCHANGED slept
    /\ UNCHANGED lmVars
    /\ UNCHANGED parseVars
    /\ UNCHANGED mergeVars

\* process_application up to the first search of find_best_recipe
ProcessApplication ==
    /\ pc = "loop"
    /\ i < Len(apps)
    /\ IF apps[i + 1] = ""
       THEN /\ ret' = UnknownResult
            /\ pc' = "return"
            /\ UNCHANGED <<stats, app_name, type_idx, ctx, query, stype, attempt>>
       ELSE /\ stats' = [stats EXCEPT !.total = @ + 1]
            /\ app_name' = apps[i + 1]
            /\ type_idx' = 1
            /\ ctx' = "best"
            /\ query' = <<apps[i + 1]>>
            /\ stype' = RECIPE_TYPES_PRIORITY[1]
            /\ attempt' = 0
            /\ pc' = "search"
            /\ UNCHANGED ret
    /\ UNCHANGED <<batchVars, disk, recipes, recipe, chainVars, searches, fetches>>
    /\ UNCHANGED raised
    /\ UNCHANGED slept
    /\ UNCHANGED lmVars
    /\ UNCHANGED parseVars
    /\ UNCHANGED mergeVars

\* ---------------------------------------------------- search_autopkg_web
\* where search_autopkg_web returns to
AfterSearch == IF ctx = "best" THEN "best" ELSE "parent"

\* an attempt succeeds: the page is parsed and returned
SearchSucceeds ==
    /\ pc = "search"
    /\ \E page \in SearchResponses(query, stype) :
          /\ recipes' = _parse_search_results(page)
          /\ searches' = Append(searches,
                [query |-> query, type |-> stype, ok |-> TRUE,
                 hits |-> _parse_search_results(page), stars |-> [k \in DOMAIN page |-> page[k].stars]])
    /\ pc' = AfterSearch
    /\ UNCHANGED <<batchVars, stats, disk, app_name, type_idx, ctx, query, stype, attempt,
                   recipe, chainVars, fetches, ret>>
    /\ UNCHANGED raised
    /\ slept' = 0
    /\ UNCHANGED lmVars
    /\ UNCHANGED parseVars
    /\ UNCHANGED mergeVars

\* an attempt raises requests.RequestException: retry after RETRY_DELAY, or
\* return [] after the last attempt
SearchFails ==
    /\ pc = "search"
    /\ IF attempt < MAX_RETRIES - 1
       THEN /\ pc' = "search_wait"
            /\ UNCHANGED <<recipes, searches>>
       ELSE /\ recipes' = <<>>
            /\ searches' = Append(searches,
                  [query |-> query, type |-> stype, ok |-> FALSE, hits |-> <<>>, stars |-> <<>>])
            /\ pc' = AfterSearch
    /\ UNCHANGED <<batchVars, stats, disk, app_name, type_idx, ctx, query, stype, attempt,
                   recipe, chainVars, fetches, ret>>
    /\ UNCHANGED raised
    /\ slept' = 0
    /\ UNCHANGED lmVars
    /\ UNCHANGED parseVars
    /\ UNCHANGED mergeVars

\* time.sleep(RETRY_DELAY), then the next attempt
SearchWait ==
    /\ pc = "search_wait"
    /\ attempt' = attempt + 1
    /\ pc' = "search"
    /\ UNCHANGED <<batchVars, stats, disk, app_name, type_idx, ctx, query, stype, recipes,
                   recipe, chainVars, searches, fetches, ret>>
    /\ UNCHANGED raised
    /\ slept' = slept + RetrySleep
    /\ UNCHANGED lmVars
    /\ UNCHANGED parseVars
    /\ UNCHANGED mergeVars

\* an attempt raises something that is not a RequestException: it leaves
\* search_autopkg_web and its callers and reaches process_application's except
SearchRaises ==
    /\ pc = "search"
    /\ HandleException("search raised")
    /\ UNCHANGED <<batchVars, disk, app_name, type_idx, ctx, searchVars, recipe, chainVars,
                   searches, fetches>>
    /\ raised' = TRUE
    /\ slept' = 0
    /\ UNCHANGED lmVars
    /\ UNCHANGED parseVars
    /\ UNCHANGED mergeVars

\* every type is searched before a selection is made: the last type with a
\* valid candidate wins
find_best_recipe_SearchAllTypes ==
    /\ pc = "best"
    /\ IF type_idx < Len(RECIPE_TYPES_PRIORITY)
       THEN /\ type_idx' = type_idx + 1
            /\ stype' = RECIPE_TYPES_PRIORITY[type_idx + 1]
            /\ attempt' = 0
            /\ pc' = "search"
            /\ UNCHANGED <<recipe, stats, target, ctx, query, ret>>
       ELSE IF ValidRecipes(recipes) # <<>>
       THEN /\ recipe' = FirstValid(recipes)
            /\ stats' = [stats EXCEPT !.found = @ + 1]
            /\ target' = FirstValid(recipes)
            /\ ctx' = "root"
            /\ attempt' = 0
            /\ pc' = "download"
            /\ UNCHANGED <<type_idx, query, stype, ret>>
       ELSE /\ ret' = NotFoundResult(app_name)
            /\ pc' = "return"
            /\ UNCHANGED <<recipe, stats, target, ctx, type_idx, query, stype, attempt>>
    /\ UNCHANGED <<batchVars, disk, app_name, recipes, dl_ok, downloaded_files, local_paths,
                   parents, p_idx, searches, fetches>>
    /\ UNCHANGED raised
    /\ UNCHANGED slept
    /\ UNCHANGED lmVars
    /\ UNCHANGED parseVars
    /\ UNCHANGED mergeVars

\* a valid recipe whose file is not on disk yet
NotOnDisk(r) == ~r.deprecated /\ RecipePath(r) \notin DOMAIN disk

\* the selection looks at the output tree: a valid recipe that was not
\* downloaded before is preferred to the first valid one
find_best_recipe_PreferNotOnDisk ==
    /\ pc = "best"
    /\ IF ValidRecipes(recipes) # <<>>
       THEN /\ recipe' = IF SelectSeq(recipes, NotOnDisk) # <<>>
                         THEN SelectSeq(recipes, NotOnDisk)[1] ELSE FirstValid(recipes)
            /\ stats' = [stats EXCEPT !.found = @ + 1]
            /\ target' = recipe'
            /\ ctx' = "root"
            /\ attempt' = 0
            /\ pc' = "download"
            /\ UNCHANGED <<type_idx, query, stype, ret>>
       ELSE IF type_idx < Len(RECIPE_TYPES_PRIORITY)
       THEN /\ type_idx' = type_idx + 1
            /\ stype' = RECIPE_TYPES_PRIORITY[type_idx + 1]
            /\ attempt' = 0
            /\ pc' = "search"
            /\ UNCHANGED <<recipe, stats, target, ctx, query, ret>>
       ELSE /\ ret' = NotFoundResult(app_name)
            /\ pc' = "return"
            /\ UNCHANGED <<recipe, stats, target, ctx, type_idx, query, stype, attempt>>
    /\ UNCHANGED <<batchVars, disk, app_name, recipes, dl_ok, downloaded_files, local_paths,
                   parents, p_idx, searches, fetches>>
    /\ UNCHANGED raised
    /\ UNCHANGED slept
    /\ UNCHANGED lmVars
    /\ UNCHANGED parseVars
    /\ UNCHANGED mergeVars

\* ------------------------------------------------------ find_best_recipe
\* the loop body after the search of one type returned
find_best_recipe ==
    /\ pc = "best"
    /\ IF ValidRecipes(recipes) # <<>>
       THEN \* return valid_recipes[0]; stats found; _download_recipe_chain starts
            /\ recipe' = FirstValid(recipes)
            /\ stats' = [stats EXCEPT !.found = @ + 1]
            /\ target' = FirstValid(recipes)
            /\ ctx' = "root"
            /\ attempt' = 0
            /\ pc' = "download"
            /\ UNCHANGED <<type_idx, query, stype, ret>>
       ELSE IF type_idx < Len(RECIPE_TYPES_PRIORITY)
       THEN /\ type_idx' = type_idx + 1
            /\ stype' = RECIPE_TYPES_PRIORITY[type_idx + 1]
            /\ attempt' = 0
            /\ pc' = "search"
            /\ UNCHANGED <<recipe, stats, target, ctx, query, ret>>
       ELSE \* return None: the not-found result
            /\ ret' = NotFoundResult(app_name)
            /\ pc' = "return"
            /\ UNCHANGED <<recipe, stats, target, ctx, type_idx, query, stype, attempt>>
    /\ UNCHANGED <<batchVars, disk, app_name, recipes, dl_ok, downloaded_files, local_paths,
                   parents, p_idx, searches, fetches>>
    /\ UNCHANGED raised
    /\ UNCHANGED slept
    /\ UNCHANGED lmVars
    /\ UNCHANGED parseVars
    /\ UNCHANGED mergeVars

\* -------------------------------------------------- download_recipe_file
\* where download_recipe_file returns to
AfterDownload == IF ctx = "root" THEN "chain_root" ELSE "chain_parent"

\* an attempt fetches the raw URL and writes the text to the target path
DownloadSucceeds ==
    /\ pc = "download"
    /\ disk' = (RecipePath(target) :> RemoteText(RawUrl(target.recipe_file_url))) @@ disk
    /\ dl_ok' = TRUE
    /\ fetches' = Append(fetches, [recipe |-> target, path |-> RecipePath(target),
                                   ok |-> TRUE, attempts |-> attempt + 1])
    /\ pc' = AfterDownload
    /\ UNCHANGED <<batchVars, stats, app_name, type_idx, ctx, searchVars, recipe, target,
                   downloaded_files, local_paths, parents, p_idx, searches, ret>>
    /\ UNCHANGED raised
    /\ UNCHANGED slept
    /\ UNCHANGED lmVars
    /\ UNCHANGED parseVars
    /\ UNCHANGED mergeVars

\* download_recipe_file sleeping the retry delay after every failed attempt,
\* the last one included
DownloadFails_SleepAfterLast ==
    /\ pc = "download"
    /\ IF attempt < MAX_RETRIES - 1
       THEN /\ pc' = "download_wait"
            /\ UNCHANGED <<dl_ok, fetches, slept>>
       ELSE /\ dl_ok' = FALSE
            /\ fetches' = Append(fetches, [recipe |-> target, path |-> RecipePath(target),
                                           ok |-> FALSE, attempts |-> attempt + 1])
            /\ slept' = slept + RetrySleep
            /\ pc' = AfterDownload
    /\ UNCHANGED <<batchVars, stats, disk, app_name, type_idx, ctx, searchVars, recipe, target,
                   downloaded_files, local_paths, parents, p_idx, searches, ret>>
    /\ UNCHANGED raised
    /\ UNCHANGED lmVars
    /\ UNCHANGED parseVars
    /\ UNCHANGED mergeVars

\* an attempt raises (fetch or write): retry after RETRY_DELAY, or return
\* False after the last attempt
DownloadFails ==
    /\ pc = "download"
    /\ IF attempt < MAX_RETRIES - 1
       THEN /\ pc' = "download_wait"
            /\ UNCHANGED <<dl_ok, fetches>>
       ELSE /\ dl_ok' = FALSE
            /\ fetches' = Append(fetches, [recipe |-> target, path |-> RecipePath(target),
                                           ok |-> FALSE, attempts |-> attempt + 1])
            /\ pc' = AfterDownload
    /\ UNCHANGED <<batchVars, stats, disk, app_name, type_idx, ctx, searchVars, recipe, target,
                   downloaded_files, local_paths, parents, p_idx, searches, ret>>
    /\ UNCHANGED raised
    /\ UNCHANGED slept
    /\ UNCHANGED lmVars
    /\ UNCHANGED parseVars
    /\ UNCHANGED mergeVars

\* time.sleep(RETRY_DELAY), then the next attempt
DownloadWait ==
    /\ pc = "download_wait"
    /\ attempt' = attempt + 1
    /\ pc' = "download"
    /\ UNCHANGED <<batchVars, stats, disk, app_name, type_idx, ctx, query, stype, recipes,
                   recipe, chainVars, searches, fetches, ret>>
    /\ UNCHANGED raised
    /\ slept' = slept + RetrySleep
    /\ UNCHANGED lmVars
    /\ UNCHANGED parseVars
    /\ UNCHANGED mergeVars

\* ------------------------------------------------ _download_recipe_chain
\* after the download of the root returned: record it, read the file back
\* and extract its parent references
ChainRoot ==
    /\ pc = "chain_root"
    /\ IF dl_ok
       THEN IF IsUnder(RecipePath(recipe), output_dir)
            THEN /\ downloaded_files' = Append(downloaded_files, recipe.recipe_file)
                 /\ local_paths' = Append(local_paths, RelativeTo(RecipePath(recipe), output_dir))
                 /\ parents' = get_parent_recipes(disk[RecipePath(recipe)])
                 /\ p_idx' = 1
                 /\ pc' = "chain_loop"
                 /\ UNCHANGED <<stats, ret, raised>>
            ELSE \* recipe_path.relative_to(self.output_dir) raises ValueError
                 /\ downloaded_files' = Append(downloaded_files, recipe.recipe_file)
                 /\ HandleException("ValueError: path is not in the subpath of output_dir")
                 /\ raised' = TRUE
                 /\ UNCHANGED <<local_paths, parents, p_idx>>
       ELSE /\ parents' = <<>>
            /\ p_idx' = 1
            /\ pc' = "chain_loop"
            /\ UNCHANGED <<downloaded_files, local_paths, stats, ret, raised>>
    /\ UNCHANGED <<batchVars, disk, app_name, type_idx, ctx, searchVars, recipe, target, dl_ok,
                   searches, fetches>>
    /\ UNCHANGED slept
    /\ UNCHANGED lmVars
    /\ UNCHANGED parseVars
    /\ UNCHANGED mergeVars

\* the head of the loop over the parent references: search the next one, or
\* return the two lists to process_application, which builds its result
ChainNextParent ==
    /\ pc = "chain_loop"
    /\ IF p_idx <= Len(parents)
       THEN /\ ctx' = "parent"
            /\ query' = parents[p_idx]
            /\ stype' = ""
            /\ attempt' = 0
            /\ pc' = "search"
            /\ UNCHANGED <<stats, ret>>
       ELSE /\ stats' = IF downloaded_files # <<>>
                        THEN [stats EXCEPT !.downloaded = @ + 1] ELSE stats
            /\ ret' = FoundResult(app_name, recipe, downloaded_files, local_paths)
            /\ pc' = "return"
            /\ UNCHANGED <<ctx, query, stype, attempt>>
    /\ UNCHANGED <<batchVars, disk, app_name, type_idx, recipes, recipe, chainVars,
                   searches, fetches>>
    /\ UNCHANGED raised
    /\ UNCHANGED slept
    /\ UNCHANGED lmVars
    /\ UNCHANGED parseVars
    /\ UNCHANGED mergeVars

\* after the search for a parent returned: download its first hit, if any
ChainParentFound ==
    /\ pc = "parent"
    /\ IF recipes # <<>>
       THEN /\ target' = recipes[1]
            /\ attempt' = 0
            /\ pc' = "download"
            /\ UNCHANGED p_idx
       ELSE /\ p_idx' = p_idx + 1
            /\ pc' = "chain_loop"
            /\ UNCHANGED <<target, attempt>>
    /\ UNCHANGED <<batchVars, stats, disk, app_name, type_idx, ctx, query, stype, recipes,
                   recipe, dl_ok, downloaded_files, local_paths, parents, searches, fetches, ret>>
    /\ UNCHANGED raised
    /\ UNCHANGED slept
    /\ UNCHANGED lmVars
    /\ UNCHANGED parseVars
    /\ UNCHANGED mergeVars

\* a failed parent download treated as an error of the whole application
ChainParentFetched_RaiseOnFailure ==
    /\ pc = "chain_parent"
    /\ IF dl_ok /\ IsUnder(RecipePath(target), output_dir)
       THEN /\ downloaded_files' = Append(downloaded_files, target.recipe_file)
            /\ local_paths' = Append(local_paths, RelativeTo(RecipePath(target), output_dir))
            /\ p_idx' = p_idx + 1
            /\ pc' = "chain_loop"
            /\ UNCHANGED <<stats, ret, raised>>
       ELSE /\ HandleException("parent download failed")
            /\ raised' = TRUE
            /\ UNCHANGED <<downloaded_files, local_paths, p_idx>>
    /\ UNCHANGED <<batchVars, disk, app_name, type_idx, ctx, searchVars, recipe, target, dl_ok,
                   parents, searches, fetches>>
    /\ UNCHANGED slept
    /\ UNCHANGED lmVars
    /\ UNCHANGED parseVars
    /\ UNCHANGED mergeVars

\* a fetched parent recorded in downloaded_files only
ChainParentFetched_FileOnly ==
    /\ pc = "chain_parent"
    /\ IF dl_ok
       THEN /\ downloaded_files' = Append(downloaded_files, target.recipe_file)
            /\ p_idx' = p_idx + 1
            /\ pc' = "chain_loop"
            /\ UNCHANGED <<local_paths, stats, ret, raised>>
       ELSE /\ p_idx' = p_idx + 1
            /\ pc' = "chain_loop"
            /\ UNCHANGED <<downloaded_files, local_paths, stats, ret, raised>>
    /\ UNCHANGED <<batchVars, disk, app_name, type_idx, ctx, searchVars, recipe, target, dl_ok,
                   parents, searches, fetches>>
    /\ UNCHANGED slept
    /\ UNCHANGED lmVars
    /\ UNCHANGED parseVars
    /\ UNCHANGED mergeVars

\* after the download of a parent returned: record it when it succeeded
ChainParentFetched ==
    /\ pc = "chain_parent"
    /\ IF dl_ok
       THEN IF IsUnder(RecipePath(target), output_dir)
            THEN /\ downloaded_files' = Append(downloaded_files, target.recipe_file)
                 /\ local_paths' = Append(local_paths, RelativeTo(RecipePath(target), output_dir))
                 /\ p_idx' = p_idx + 1
                 /\ pc' = "chain_loop"
                 /\ UNCHANGED <<stats, ret, raised>>
            ELSE /\ downloaded_files' = Append(downloaded_files, target.recipe_file)
                 /\ HandleException("ValueError: path is not in the subpath of output_dir")
                 /\ raised' = TRUE
                 /\ UNCHANGED <<local_paths, p_idx>>
       ELSE /\ p_idx' = p_idx + 1
            /\ pc' = "chain_loop"
            /\ UNCHANGED <<downloaded_files, local_paths, stats, ret, raised>>
    /\ UNCHANGED <<batchVars, disk, app_name, type_idx, ctx, searchVars, recipe, target, dl_ok,
                   parents, searches, fetches>>
    /\ UNCHANGED slept
    /\ UNCHANGED lmVars
    /\ UNCHANGED parseVars
    /\ UNCHANGED mergeVars

\* --------------------------------------------------- process_applications
\* the row keyed by the result's application instead of the input row's
ResultRow_FromResult(app, pr) ==
    [Application |-> pr.application, recipe_name |-> pr.recipe_name,
     recipe_type |-> pr.recipe_type, repo |-> pr.repo, found |-> pr.found,
     downloaded |-> pr.downloaded,
     downloaded_files |-> Join(pr.downloaded_files, ", "),
     local_paths |-> Join(pr.local_paths, "; "),
     error |-> IF pr.error = <<>> THEN "" ELSE pr.error[1]]

\* result = app.copy(); result.update({...})
ResultRow(app, pr) ==
    [Application |-> app, recipe_name |-> pr.recipe_name, recipe_type |-> pr.recipe_type,
     repo |-> pr.repo, found |-> pr.found, downloaded |-> pr.downloaded,
     downloaded_files |-> Join(pr.downloaded_files, ", "),
     local_paths |-> Join(pr.local_paths, "; "),
     error |-> IF pr.error = <<>> THEN "" ELSE pr.error[1]]

\* an append that also rewrites the earlier rows of the same application
AppendResult_UpdateSameApplication ==
    /\ pc = "return"
    /\ results' = Append([k \in DOMAIN results |->
                             IF results[k].Application = apps[i + 1]
                             THEN ResultRow(apps[i + 1], ret) ELSE results[k]],
                         ResultRow(apps[i + 1], ret))
    /\ pc' = "delay"
    /\ UNCHANGED <<apps, i, stats, disk, app_name, type_idx, ctx, searchVars, recipe, chainVars,
                   searches, fetches, ret>>
    /\ UNCHANGED raised
    /\ UNCHANGED slept
    /\ UNCHANGED lmVars
    /\ UNCHANGED parseVars
    /\ UNCHANGED mergeVars

\* process_application returned: results.append(result)
AppendResult ==
    /\ pc = "return"
    /\ results' = Append(results, ResultRow(apps[i + 1], ret))
    /\ pc' = "delay"
    /\ UNCHANGED <<apps, i, stats, disk, app_name, type_idx, ctx, searchVars, recipe, chainVars,
                   searches, fetches, ret>>
    /\ UNCHANGED raised
    /\ UNCHANGED slept
    /\ UNCHANGED lmVars
    /\ UNCHANGED parseVars
    /\ UNCHANGED mergeVars

\* time.sleep(REQUEST_DELAY) and the next iteration; the locals of the
\* finished call are gone
RequestDelay ==
    /\ pc = "delay"
    /\ i' = i + 1
    /\ pc' = "loop"
    /\ app_name' = ""
    /\ type_idx' = 0
    /\ ctx' = ""
    /\ query' = <<>>
    /\ stype' = ""
    /\ attempt' = 0
    /\ recipes' = <<>>
    /\ recipe' = NoRecipe
    /\ target' = NoRecipe
    /\ dl_ok' = FALSE
    /\ downloaded_files' = <<>>
    /\ local_paths' = <<>>
    /\ parents' = <<>>
    /\ p_idx' = 0
    /\ searches' = <<>>
    /\ fetches' = <<>>
    /\ ret' = NoResult
    /\ raised' = FALSE
    /\ slept' = slept + REQUEST_DELAY
    /\ UNCHANGED <<apps, results, stats, disk>>
    /\ UNCHANGED lmVars
    /\ UNCHANGED parseVars
    /\ UNCHANGED mergeVars

\* the loop is exhausted: return results
ReturnResults ==
    /\ pc = "loop"
    /\ i = Len(apps)
    /\ pc' = "done"
    /\ UNCHANGED <<batchVars, stats, disk, app_name, type_idx, ctx, searchVars, recipe,
                   chainVars, searches, fetches, ret>>
    /\ UNCHANGED raised
    /\ UNCHANGED slept
    /\ UNCHANGED lmVars
    /\ UNCHANGED parseVars
    /\ UNCHANGED mergeVars

Next ==
    \/ ProcessApplication
    \/ SearchSucceeds
    \/ SearchFails
    \/ SearchWait
    \/ SearchRaises
    \/ find_best_recipe
    \/ DownloadSucceeds
    \/ DownloadFails
    \/ DownloadWait
    \/ ChainRoot
    \/ ChainNextParent
    \/ ChainParentFound
    \/ ChainParentFetched
    \/ AppendResult
    \/ RequestDelay
    \/ ReturnResults

Spec == Init /\ [][Next]_vars

TypeOK ==
    /\ pc \in {"loop", "search", "search_wait", "best", "download", "download_wait",
               "chain_root", "chain_loop", "parent", "chain_parent", "return", "delay", "done"}
    /\ i \in 0..Len(apps)
    /\ attempt \in 0..(MAX_RETRIES - 1)
    /\ Len(results) \in {i, i + 1}
    /\ raised \in BOOLEAN
    /\ slept \in Nat

\* ============================================ _parse_search_results
\* the table rows a page may hold: a complete row; a row without a badge; a
\* row whose cells hold none of the expected elements, and whose badge is
\* not the suffix of its name; a row of four cells, the one of the file link
\* missing; a row whose markup makes a call on it raise
TableRows ==
    { [cells |-> 5, name |-> NameFooMunki, badge |-> "munki", desc |-> <<"Installs Foo">>,
       repo |-> <<"recipes-a">>, file |-> <<"Foo.munki.recipe">>,
       href |-> <<"github.com", "/blob/", "f1">>],
      [cells |-> 5, name |-> NameFooDownload, desc |-> <<"Downloads Foo">>,
       repo |-> <<"recipes-a">>, file |-> <<"Foo.download.recipe">>,
       href |-> <<"github.com", "/blob/", "f2">>],
      [cells |-> 5, name |-> NameBaseDownload, badge |-> "pkg"],
      [cells |-> 4, name |-> NameFooPro, badge |-> "munki", desc |-> <<"Installs Foo Pro">>,
       repo |-> <<"recipes-c">>],
      [cells |-> 5, raises |-> TRUE, name |-> NameSelfMunki, badge |-> "munki",
       repo |-> <<"recipes-c">>, file |-> <<"Self.munki.recipe">>,
       href |-> <<"github.com", "/blob/", "f6">>] }

\* _parse_search_results is called with a page: recipes = []
ParseInit ==
    /\ html \in UNION {[1..n -> TableRows] : n \in 0..MaxRows}
    /\ rows_done = 0
    /\ paths = <<>>
    /\ return_dict = EmptyDict
    /\ paths_done = 0
    /\ recipes = <<>>
    /\ pc = "parse"
    /\ apps = <<>>
    /\ results = <<>>
    /\ stats = [total |-> 0, found |-> 0, downloaded |-> 0, errors |-> 0]
    /\ disk = <<>>
    /\ i = 0
    /\ app_name = ""
    /\ type_idx = 0
    /\ ctx = ""
    /\ query = <<>>
    /\ stype = ""
    /\ attempt = 0
    /\ recipe = NoRecipe
    /\ target = NoRecipe
    /\ dl_ok = FALSE
    /\ downloaded_files = <<>>
    /\ local_paths = <<>>
    /\ parents = <<>>
    /\ p_idx = 0
    /\ searches = <<>>
    /\ fetches = <<>>
    /\ ret = NoResult
    /\ raised = FALSE
    /\ slept = 0
    /\ enable_last_mile = FALSE
    /\ perplexity_api_key = FALSE
    /\ apps_without_recipes = <<>>
    /\ lm_i = 0
    /\ last_mile_results = <<>>
    /\ download_info = None
    /\ polls = 0
    /\ recipe_result = NoRecipeResult
    /\ calls = <<>>

\* what a step of the parser leaves alone
parseFrame == <<apps, results, stats, disk, i, app_name, type_idx, ctx, query, stype, attempt,
                recipe, chainVars, searches, fetches, ret, slept, lmVars,
               paths, return_dict, paths_done>>

\* the row the loop is at
CurrentRow == html[rows_done + 1]

\* if len(cells) < 5: continue
ParseShortRow ==
    /\ pc = "parse"
    /\ rows_done < Len(html)
    /\ CellCount(CurrentRow) < 5
    /\ rows_done' = rows_done + 1
    /\ UNCHANGED <<pc, recipes, html, raised, parseFrame>>

\* the try block runs through: recipes.append(recipe)
ParseRowAppended ==
    /\ pc = "parse"
    /\ rows_done < Len(html)
    /\ CellCount(CurrentRow) >= 5
    /\ ~RowRaises(CurrentRow)
    /\ recipes' = Append(recipes, ParseRow(CurrentRow))
    /\ rows_done' = rows_done + 1
    /\ UNCHANGED <<pc, html, raised, parseFrame>>

\* the exception of a row leaving _parse_search_results
ParseRowRaises_Propagates ==
    /\ pc = "parse"
    /\ rows_done < Len(html)
    /\ CellCount(CurrentRow) >= 5
    /\ RowRaises(CurrentRow)
    /\ raised' = TRUE
    /\ recipes' = <<>>
    /\ pc' = "parsed"
    /\ UNCHANGED <<rows_done, html, parseFrame>>

\* except Exception: the warning is logged and the loop goes on
ParseRowRaises ==
    /\ pc = "parse"
    /\ rows_done < Len(html)
    /\ CellCount(CurrentRow) >= 5
    /\ RowRaises(CurrentRow)
    /\ rows_done' = rows_done + 1
    /\ UNCHANGED <<pc, recipes, html, raised, parseFrame>>

\* return recipes
ParseReturn ==
    /\ pc = "parse"
    /\ rows_done = Len(html)
    /\ pc' = "parsed"
    /\ UNCHANGED <<recipes, html, rows_done, raised, parseFrame>>

ParseNext ==
    \/ ParseShortRow
    \/ ParseRowAppended
    \/ ParseRowRaises
    \/ ParseReturn

ParseSpec == ParseInit /\ [][ParseNext]_vars

\* ================================================== the last-mile step
\* one status request more than the loop makes
MAX_POLLS_Eleven == 10 + 1

\* range(10): the status requests of one find_download_url call
MAX_POLLS == 10

\* time.sleep(2) before each status request, in seconds
POLL_DELAY == 2

\* the same on the clock
PollSleep == POLL_DELAY * TicksPerSecond

\* LAST_MILE_RECIPE_PREFIX
LAST_MILE_RECIPE_PREFIX == <<"com.github.anywhereops.anywhereops-recipes">>

\* what a completed job can answer: the message content and the search
\* results; a malformed answer lacks the keys _parse_download_url reads
Replies ==
    { [malformed |-> FALSE, content |-> <<"NO_DIRECT_DOWNLOAD">>, search_results |-> <<>>],
      [malformed |-> FALSE, content |-> <<"see ", "vendor.example">>, search_results |-> <<>>],
      [malformed |-> FALSE, content |-> <<"https://", "vendor.example/app", ".pkg">>,
       search_results |-> << <<"https://", "vendor.example">> >>],
      [malformed |-> FALSE, content |-> <<"https://", "vendor.example/app">>,
       search_results |-> <<>>],
      [malformed |-> TRUE, content |-> <<>>, search_results |-> <<>>] }

\* {"found": False, "url": None, "type": None, "source": None}
NotFoundInfo == [found |-> FALSE, url |-> NoValue, type |-> "None", source |-> NoValue]

\* the download type read off the end of the URL
DownloadType(url) ==
    IF EndsWith(url, ".pkg") THEN "pkg"
    ELSE IF EndsWith(url, ".dmg") THEN "dmg"
    ELSE IF EndsWith(url, ".zip") THEN "zip"
    ELSE "unknown"

_parse_download_url(reply) ==
    IF reply.malformed THEN NotFoundInfo
    ELSE IF reply.content = <<"NO_DIRECT_DOWNLOAD">> \/ reply.content = <<>> THEN NotFoundInfo
    ELSE IF reply.content[1] \notin {"http://", "https://"} THEN NotFoundInfo
    ELSE [found |-> TRUE, url |-> reply.content, type |-> DownloadType(reply.content),
          source |-> IF reply.search_results # <<>> THEN reply.search_results[1] ELSE NoValue,
          citations |-> <<>>]

\* what one run of the recipe-authoring tool can give: it timed out, or it
\* ended with a return code after announcing the recipes it created
RobotRuns ==
    { [timeout |-> TRUE, failed |-> FALSE, created |-> <<>>],
      [timeout |-> FALSE, failed |-> TRUE, created |-> <<>>],
      [timeout |-> FALSE, failed |-> FALSE, created |-> <<>>],
      [timeout |-> FALSE, failed |-> FALSE,
       created |-> << <<"/", "robot", "/", "App.download.recipe">> >>] }

\* str(Path(recipe_path).parent) of the first created recipe, or None
RecipeDirectory(created) ==
    IF created = <<>> THEN NoValue ELSE SubSeq(created[1], 1, Len(created[1]) - 2)

\* create_recipes: the parsed output of the run, or the timeout result
create_recipes(run) ==
    IF run.timeout
    THEN [success |-> FALSE, error |-> "Recipe Robot timed out", created_recipes |-> <<>>]
    ELSE IF run.failed
    THEN [success |-> FALSE, error |-> "Unknown error", created_recipes |-> run.created,
          recipe_directory |-> RecipeDirectory(run.created)]
    ELSE [success |-> TRUE, created_recipes |-> run.created,
          recipe_directory |-> RecipeDirectory(run.created)]

\* str(target_path.relative_to(target_dir)) of a moved recipe file
MovedPath(app, file) ==
    LAST_MILE_RECIPE_PREFIX \o <<"/">> \o sanitize_name(<<app>>) \o <<"/">> \o <<file>>

\* found and downloaded set on success alone, moved files or not
_create_result_FoundOnSuccess(original_data, success, error, kwargs) ==
    LET p == Get(kwargs, "perplexity_result", EmptyDict)
        r == Get(kwargs, "recipe_robot_result", EmptyDict)
        m == Get(kwargs, "moved_files", <<>>)
        result ==
            [last_mile_processed |-> TRUE,
             last_mile_success |-> success,
             last_mile_error |-> error,
             download_url |-> Get(p, "url", <<>>),
             download_type |-> Get(p, "type", ""),
             download_source |-> Get(p, "source", <<>>),
             recipe_robot_success |-> Get(r, "success", FALSE),
             created_recipes |-> Join(Get(r, "created_recipes", <<>>), ", "),
             recipe_paths |-> Join(m, "; ")] @@ original_data
    IN  IF success
        THEN [recipe_name |-> <<"Custom - ", original_data.Application>>,
              recipe_type |-> "custom",
              repo |-> <<"anywhereops-recipes">>,
              found |-> TRUE,
              downloaded |-> TRUE,
              local_paths |-> Join(m, "; ")] @@ result
        ELSE result

\* _create_result; the caller checks CreateResultRaises first
_create_result(original_data, success, error, kwargs) ==
    LET p == Get(kwargs, "perplexity_result", EmptyDict)
        r == Get(kwargs, "recipe_robot_result", EmptyDict)
        m == Get(kwargs, "moved_files", <<>>)
        result ==
            [last_mile_processed |-> TRUE,
             last_mile_success |-> success,
             last_mile_error |-> error,
             download_url |-> Get(p, "url", <<>>),
             download_type |-> Get(p, "type", ""),
             download_source |-> Get(p, "source", <<>>),
             recipe_robot_success |-> Get(r, "success", FALSE),
             created_recipes |-> Join(Get(r, "created_recipes", <<>>), ", "),
             recipe_paths |-> Join(m, "; ")] @@ original_data
    IN  IF success /\ m # <<>>
        THEN [recipe_name |-> <<"Custom - ", original_data.Application>>,
              recipe_type |-> "custom",
              repo |-> <<"anywhereops-recipes">>,
              found |-> TRUE,
              downloaded |-> TRUE,
              local_paths |-> Join(m, "; ")] @@ result
        ELSE result

\* kwargs.get("perplexity_result", {}) is None: .get on it raises AttributeError
CreateResultRaises(kwargs) ==
    "perplexity_result" \in DOMAIN kwargs /\ kwargs.perplexity_result = None

\* the except clause of process_last_mile_apps
LastMileErrorResult(app, msg) ==
    [last_mile_processed |-> TRUE, last_mile_success |-> FALSE, last_mile_error |-> msg] @@ app

\* r for r in results if not r.get("found") or r.get("recipe_name") == "Not Found"
WithoutRecipe(r) == ~r.found \/ r.recipe_name = <<"Not Found">>

\* the row found first with the Application of the updated row is replaced
ReplaceFirst(rows, updated) ==
    LET K == {k \in DOMAIN rows : rows[k].Application = updated.Application}
    IN  IF K = {} THEN rows
        ELSE [rows EXCEPT ![CHOOSE k \in K : \A m \in K : k <= m] = updated]

\* for updated in last_mile_results: ...
RECURSIVE MergeResults(_, _)
MergeResults(rows, updates) ==
    IF updates = <<>> THEN rows
    ELSE MergeResults(ReplaceFirst(rows, Head(updates)), Tail(updates))

\* rows process_applications returns: for an empty name, for an application
\* without a recipe, for one whose search raised, and for Foo.munki
\* downloaded without a parent
FooMunkiRecipe == ParseRow(CHOOSE r \in Catalog : r.name = NameFooMunki)

FinderRows ==
    { ResultRow("", UnknownResult),
      ResultRow("Foo", NotFoundResult("Foo")),
      ResultRow("Self", NotFoundResult("Self")),
      ResultRow("Foo", ErrorResult("Foo", "search raised")),
      ResultRow("Foo", FoundResult("Foo", FooMunkiRecipe, <<FooMunkiRecipe.recipe_file>>,
                                   <<RelativeTo(RecipePath(FooMunkiRecipe), output_dir)>>)) }

\* the rows at the end of the list that belong to applications without a name
RECURSIVE TrailingUnnamed(_)
TrailingUnnamed(rows) ==
    IF rows = <<>> \/ rows[Len(rows)].Application # "" THEN 0
    ELSE 1 + TrailingUnnamed(SubSeq(rows, 1, Len(rows) - 1))

\* main after finder.process_applications(apps) returned the rows: the state
\* the finder is left in by a batch with these rows, and the two switches
LastMileInit ==
    /\ results \in UNION {[1..n -> FinderRows] : n \in 1..MaxApps}
    /\ apps = [k \in DOMAIN results |-> results[k].Application]
    /\ i = Len(results)
    /\ stats = [total |-> Cardinality({k \in DOMAIN results : results[k].Application # ""}),
                found |-> Cardinality({k \in DOMAIN results : results[k].found}),
                downloaded |-> Cardinality({k \in DOMAIN results : results[k].downloaded}),
                errors |-> Cardinality({k \in DOMAIN results :
                                            results[k].recipe_name = <<"Error">>})]
    /\ disk = IF \E k \in DOMAIN results : results[k].found
              THEN RecipePath(FooMunkiRecipe) :> RemoteText(RawUrl(FooMunkiRecipe.recipe_file_url))
              ELSE <<>>
    /\ pc = "done"
    /\ app_name = ""
    /\ type_idx = 0
    /\ ctx = ""
    /\ query = <<>>
    /\ stype = ""
    /\ attempt = 0
    /\ recipes = <<>>
    /\ recipe = NoRecipe
    /\ target = NoRecipe
    /\ dl_ok = FALSE
    /\ downloaded_files = <<>>
    /\ local_paths = <<>>
    /\ parents = <<>>
    /\ p_idx = 0
    /\ searches = <<>>
    /\ fetches = <<>>
    /\ ret = NoResult
    /\ raised = FALSE
    /\ slept = REQUEST_DELAY * (IF TrailingUnnamed(results) = Len(results)
                                THEN Len(results) ELSE TrailingUnnamed(results) + 1)
    /\ enable_last_mile \in BOOLEAN
    /\ perplexity_api_key \in BOOLEAN
    /\ apps_without_recipes = <<>>
    /\ lm_i = 0
    /\ last_mile_results = <<>>
    /\ download_info = None
    /\ polls = 0
    /\ recipe_result = NoRecipeResult
    /\ calls = <<>>
    /\ html = <<>>
    /\ rows_done = 0
    /\ paths = <<>>
    /\ return_dict = EmptyDict
    /\ paths_done = 0

\* main, step 2: the rows without a recipe, and whether the last-mile run
\* is made for them
LastMileCheck ==
    /\ pc = "done"
    /\ apps_without_recipes' = SelectSeq(results, WithoutRecipe)
    /\ pc' = IF SelectSeq(results, WithoutRecipe) # <<>> /\ enable_last_mile /\ perplexity_api_key
             THEN "last_mile" ELSE "exit"
    /\ UNCHANGED <<results, finderVars, slept, disk, enable_last_mile, perplexity_api_key, lm_i,
                   last_mile_results, download_info, polls, recipe_result, calls>>

\* the head of the loop without the test of the name
LastMileNextApp_ProcessUnnamed ==
    /\ pc = "last_mile"
    /\ lm_i < Len(apps_without_recipes)
    /\ calls' = Append(calls, [fn |-> "find_download_url", row |-> lm_i + 1])
    /\ pc' = "post"
    /\ UNCHANGED lm_i
    /\ UNCHANGED <<results, finderVars, slept, disk, enable_last_mile, perplexity_api_key,
                   apps_without_recipes, last_mile_results, download_info, polls, recipe_result>>

\* process_last_mile_apps, the head of the loop: a row without a name is
\* skipped, for any other row processor.process_application is called, which
\* calls find_download_url first
LastMileNextApp ==
    /\ pc = "last_mile"
    /\ lm_i < Len(apps_without_recipes)
    /\ IF apps_without_recipes[lm_i + 1].Application = ""
       THEN /\ lm_i' = lm_i + 1
            /\ UNCHANGED <<pc, calls>>
       ELSE /\ calls' = Append(calls, [fn |-> "find_download_url", row |-> lm_i + 1])
            /\ pc' = "post"
            /\ UNCHANGED lm_i
    /\ UNCHANGED <<results, finderVars, slept, disk, enable_last_mile, perplexity_api_key,
                   apps_without_recipes, last_mile_results, download_info, polls, recipe_result>>

\* find_download_url: requests.post or raise_for_status raises; the except
\* clause returns None
PostRaises ==
    /\ pc = "post"
    /\ download_info' = None
    /\ slept' = 0
    /\ pc' = "info"
    /\ UNCHANGED <<results, finderVars, disk, enable_last_mile, perplexity_api_key,
                   apps_without_recipes, lm_i, last_mile_results, polls, recipe_result, calls>>

\* find_download_url: the job was accepted, the polling starts
PostAccepted ==
    /\ pc = "post"
    /\ polls' = 0
    /\ slept' = 0
    /\ pc' = "poll"
    /\ UNCHANGED <<results, finderVars, disk, enable_last_mile, perplexity_api_key,
                   apps_without_recipes, lm_i, last_mile_results, download_info, recipe_result,
                   calls>>

\* the head of the polling loop: time.sleep(2), then the status request
PollWait ==
    /\ pc = "poll"
    /\ slept' = slept + PollSleep
    /\ pc' = "status"
    /\ UNCHANGED <<results, finderVars, disk, enable_last_mile, perplexity_api_key,
                   apps_without_recipes, lm_i, last_mile_results, download_info, polls,
                   recipe_result, calls>>

\* a status request answers COMPLETED: the parsed answer is returned
PollCompleted ==
    /\ pc = "status"
    /\ polls' = polls + 1
    /\ slept' = 0
    /\ \E reply \in Replies : download_info' = _parse_download_url(reply)
    /\ pc' = "info"
    /\ UNCHANGED <<results, finderVars, disk, enable_last_mile, perplexity_api_key,
                   apps_without_recipes, lm_i, last_mile_results, recipe_result, calls>>

\* a status request answers FAILED, or it raises: None is returned
PollFailed ==
    /\ pc = "status"
    /\ polls' = polls + 1
    /\ slept' = 0
    /\ download_info' = None
    /\ pc' = "info"
    /\ UNCHANGED <<results, finderVars, disk, enable_last_mile, perplexity_api_key,
                   apps_without_recipes, lm_i, last_mile_results, recipe_result, calls>>

\* a status request answers neither: the next one follows, after the last
\* one None is returned
PollPending ==
    /\ pc = "status"
    /\ polls' = polls + 1
    /\ slept' = 0
    /\ IF polls + 1 < MAX_POLLS
       THEN /\ pc' = "poll"
            /\ UNCHANGED download_info
       ELSE /\ download_info' = None
            /\ pc' = "info"
    /\ UNCHANGED <<results, finderVars, disk, enable_last_mile, perplexity_api_key,
                   apps_without_recipes, lm_i, last_mile_results, recipe_result, calls>>

\* the row processor.process_application is working on
LastMileApp == apps_without_recipes[lm_i + 1]

\* the tool run whether or not a download URL was found
DownloadInfoReturned_AlwaysRobot ==
    /\ pc = "info"
    /\ pc' = "robot"
    /\ polls' = 0
    /\ UNCHANGED <<last_mile_results, lm_i, download_info>>
    /\ UNCHANGED <<results, finderVars, slept, disk, enable_last_mile, perplexity_api_key,
                   apps_without_recipes, recipe_result, calls>>

\* LastMileProcessor.process_application after find_download_url returned:
\* without a usable URL the failure result is built, which raises when
\* download_info is None; process_last_mile_apps then appends its error row.
\* The row is appended, the loop sleeps and goes on; the locals of
\* find_download_url are gone
DownloadInfoReturned ==
    /\ pc = "info"
    /\ IF download_info = None \/ ~download_info.found
       THEN /\ last_mile_results' =
                  Append(last_mile_results,
                         IF CreateResultRaises([perplexity_result |-> download_info])
                         THEN LastMileErrorResult(LastMileApp,
                                  "'NoneType' object has no attribute 'get'")
                         ELSE _create_result(LastMileApp, FALSE, "No direct download URL found",
                                             [perplexity_result |-> download_info]))
            /\ lm_i' = lm_i + 1
            /\ download_info' = None
            /\ pc' = "last_mile"
       ELSE /\ pc' = "robot"
            /\ UNCHANGED <<last_mile_results, lm_i, download_info>>
    /\ polls' = 0
    /\ UNCHANGED <<results, finderVars, slept, disk, enable_last_mile, perplexity_api_key,
                   apps_without_recipes, recipe_result, calls>>

\* recipe_robot.create_recipes and what process_application does with its
\* result when no file is to be moved
CreateRecipes ==
    /\ pc = "robot"
    /\ calls' = Append(calls, [fn |-> "create_recipes", row |-> lm_i + 1])
    /\ \E run \in RobotRuns :
          IF ~create_recipes(run).success
          THEN /\ last_mile_results' =
                     Append(last_mile_results,
                            _create_result(LastMileApp, FALSE,
                                           Get(create_recipes(run), "error", "Recipe Robot failed"),
                                           [perplexity_result |-> download_info,
                                            recipe_robot_result |-> create_recipes(run)]))
               /\ lm_i' = lm_i + 1
               /\ download_info' = None
               /\ pc' = "last_mile"
               /\ UNCHANGED recipe_result
          ELSE IF Get(create_recipes(run), "recipe_directory", NoValue) # NoValue
          THEN /\ recipe_result' = create_recipes(run)
               /\ pc' = "move"
               /\ UNCHANGED <<last_mile_results, lm_i, download_info>>
          ELSE /\ last_mile_results' =
                     Append(last_mile_results,
                            _create_result(LastMileApp, TRUE, "",
                                           [perplexity_result |-> download_info,
                                            recipe_robot_result |-> create_recipes(run),
                                            moved_files |-> <<>>]))
               /\ lm_i' = lm_i + 1
               /\ download_info' = None
               /\ pc' = "last_mile"
               /\ UNCHANGED recipe_result
    /\ UNCHANGED <<results, finderVars, slept, disk, enable_last_mile, perplexity_api_key,
                   apps_without_recipes, polls>>

\* recipe_robot.move_recipes_to_target: the created file is moved into the
\* output tree, or it is not (no source directory, rename failed)
MoveRecipes ==
    /\ pc = "move"
    /\ calls' = Append(calls, [fn |-> "move_recipes_to_target", row |-> lm_i + 1])
    /\ \E moved \in {<<>>, <<MovedPath(LastMileApp.Application, "App.download.recipe")>>} :
          /\ last_mile_results' =
                Append(last_mile_results,
                       _create_result(LastMileApp, TRUE, "",
                                      [perplexity_result |-> download_info,
                                       recipe_robot_result |-> recipe_result,
                                       moved_files |-> moved]))
          /\ disk' = IF moved = <<>> THEN disk
                     ELSE (PathJoin(output_dir, moved[1]) :> [plist |-> <<>>, yaml |-> <<>>]) @@ disk
    /\ lm_i' = lm_i + 1
    /\ download_info' = None
    /\ recipe_result' = NoRecipeResult
    /\ pc' = "last_mile"
    /\ UNCHANGED <<results, finderVars, slept, enable_last_mile, perplexity_api_key,
                   apps_without_recipes, polls>>

\* process_last_mile_apps returned its results: main writes each of them
\* over the first row of the same Application
MergeLastMile ==
    /\ pc = "last_mile"
    /\ lm_i = Len(apps_without_recipes)
    /\ results' = MergeResults(results, last_mile_results)
    /\ pc' = "exit"
    /\ UNCHANGED <<finderVars, slept, disk, lmVars>>

LastMileNext ==
    \/ LastMileCheck
    \/ LastMileNextApp
    \/ PostRaises
    \/ PostAccepted
    \/ PollWait
    \/ PollCompleted
    \/ PollFailed
    \/ PollPending
    \/ DownloadInfoReturned
    \/ CreateRecipes
    \/ MoveRecipes
    \/ MergeLastMile

LastMileSpec == LastMileInit /\ [][LastMileNext]_vars

\* ------------------------------------------- process_last_mile_apps alone
\* the rows a caller passes: those main and enhance_autopkg_workflow select
WithoutRecipeRows == {r \in FinderRows : WithoutRecipe(r)}

\* a call process_last_mile_apps(apps_without_recipes, output_dir,
\* perplexity_api_key, logger): a list of rows, and a key that is empty or not
LastMileAppsInit ==
    /\ apps_without_recipes \in UNION {[1..n -> WithoutRecipeRows] : n \in 0..MaxApps}
    /\ perplexity_api_key \in BOOLEAN
    /\ enable_last_mile = TRUE
    /\ pc = "call"
    /\ results = <<>>
    /\ apps = <<>>
    /\ i = 0
    /\ stats = [total |-> 0, found |-> 0, downloaded |-> 0, errors |-> 0]
    /\ disk = <<>>
    /\ app_name = ""
    /\ type_idx = 0
    /\ ctx = ""
    /\ query = <<>>
    /\ stype = ""
    /\ attempt = 0
    /\ recipes = <<>>
    /\ recipe = NoRecipe
    /\ target = NoRecipe
    /\ dl_ok = FALSE
    /\ downloaded_files = <<>>
    /\ local_paths = <<>>
    /\ parents = <<>>
    /\ p_idx = 0
    /\ searches = <<>>
    /\ fetches = <<>>
    /\ ret = NoResult
    /\ raised = FALSE
    /\ slept = 0
    /\ lm_i = 0
    /\ last_mile_results = <<>>
    /\ download_info = None
    /\ polls = 0
    /\ recipe_result = NoRecipeResult
    /\ calls = <<>>
    /\ html = <<>>
    /\ rows_done = 0
    /\ paths = <<>>
    /\ return_dict = EmptyDict
    /\ paths_done = 0

\* process_last_mile_apps up to its loop: without a key the list it was
\* given is returned, with a key the processor is made and results is empty
EnterLastMileApps ==
    /\ pc = "call"
    /\ IF ~perplexity_api_key
       THEN /\ last_mile_results' = apps_without_recipes
            /\ pc' = "returned"
       ELSE /\ last_mile_results' = <<>>
            /\ pc' = "last_mile"
    /\ UNCHANGED <<results, finderVars, slept, disk, enable_last_mile, perplexity_api_key,
                   apps_without_recipes, lm_i, download_info, polls, recipe_result, calls>>

\* LastMileProcessor(...) raises: RecipeRobotHandler.__init__ runs ln -s when
\* the tool's path is missing and _setup_recipe_robot raises its failure
\* again; the call is outside any try, the exception leaves the function
ProcessorSetupRaises ==
    /\ pc = "call"
    /\ perplexity_api_key
    /\ pc' = "uncaught"
    /\ UNCHANGED <<results, finderVars, slept, disk, enable_last_mile, perplexity_api_key,
                   apps_without_recipes, lm_i, last_mile_results, download_info, polls,
                   recipe_result, calls>>

\* the loop is over: return results
ReturnLastMileApps ==
    /\ pc = "last_mile"
    /\ lm_i = Len(apps_without_recipes)
    /\ pc' = "returned"
    /\ UNCHANGED <<results, finderVars, slept, disk, lmVars>>

LastMileAppsNext ==
    \/ EnterLastMileApps
    \/ ProcessorSetupRaises
    \/ LastMileNextApp
    \/ PostRaises
    \/ PostAccepted
    \/ PollWait
    \/ PollCompleted
    \/ PollFailed
    \/ PollPending
    \/ DownloadInfoReturned
    \/ CreateRecipes
    \/ MoveRecipes
    \/ ReturnLastMileApps

LastMileAppsSpec == LastMileAppsInit /\ [][LastMileAppsNext]_vars

\* ---------------------------------------- merge_directories.get_contents
\* the directories a user can name
Folders == {<<"/", "a">>, <<"/", "b">>, <<"/", "c">>}

\* the files a directory can hold, by their path below it: f, and f in the
\* subdirectory a
RelativePaths == {<<"f">>, <<"a", "/", "f">>}

\* os.path.getmtime in ticks: 1.0, 1.5 and 2.0 seconds
MTimes == {10, 15, 20}

\* what the walk of a directory finds: its files and their mtime
Listings == UNION {[rels -> MTimes] : rels \in SUBSET RelativePaths}

\* str.replace(old, ""): every occurrence of old is taken out
RECURSIVE ReplaceWithEmpty(_, _)
ReplaceWithEmpty(str, old) ==
    IF Len(str) < Len(old) THEN str
    ELSE IF SubSeq(str, 1, Len(old)) = old
         THEN ReplaceWithEmpty(SubSeq(str, Len(old) + 1, Len(str)), old)
         ELSE <<Head(str)>> \o ReplaceWithEmpty(Tail(str), old)

\* str.lstrip(os.sep)
RECURSIVE LstripSep(_)
LstripSep(str) == IF str # <<>> /\ Head(str) = "/" THEN LstripSep(Tail(str)) ELSE str

\* datetime.fromtimestamp(t).strftime('%Y-%m-%d, %H:%M:%S'): the text names
\* the second the time falls in, and two such texts compare as their seconds
strftime(mtime) == mtime \div TicksPerSecond

\* os.path.basename
basename(file_path) == <<file_path[Len(file_path)]>>

\* _get_file_info, with the time os.path.getmtime gives for the file
_get_file_info(file_path, base_path, mtime) ==
    [name |-> basename(file_path),
     original_path |-> file_path,
     last_edited |-> strftime(mtime),
     type |-> "local",
     new_path |-> LstripSep(ReplaceWithEmpty(file_path, base_path))]

\* the file_info of every file the walk of a directory meets
FileInfos(dir) ==
    {_get_file_info(dir.base \o <<"/">> \o rel, dir.base, dir.files[rel]) :
        rel \in DOMAIN dir.files}

\* _add_contents(path, path): the dicts the walk can build, one entry per
\* new_path; of two files with the same new_path the one met last stays, and
\* os.listdir gives its entries in no order that is promised
_add_contents(dir) ==
    {d \in [{f.new_path : f \in FileInfos(dir)} -> FileInfos(dir)] :
        \A key \in DOMAIN d : d[key].new_path = key}

\* the loop over contents.items(): an entry is written when its key is new or
\* its last_edited is greater than that of the entry kept
MergeContents(dict, contents) ==
    [key \in DOMAIN dict \cup DOMAIN contents |->
        IF key \notin DOMAIN contents THEN dict[key]
        ELSE IF key \notin DOMAIN dict THEN contents[key]
        ELSE IF contents[key].last_edited > dict[key].last_edited THEN contents[key]
        ELSE dict[key]]

\* a call get_contents(paths): directories that differ, each with its files
MergeInit ==
    /\ paths \in UNION {[1..n -> [base : Folders, files : Listings]] : n \in 1..MaxFolders}
    /\ \A j, k \in DOMAIN paths : j # k => paths[j].base # paths[k].base
    /\ return_dict = EmptyDict
    /\ paths_done = 0
    /\ pc = "merge"
    /\ apps = <<>>
    /\ results = <<>>
    /\ stats = [total |-> 0, found |-> 0, downloaded |-> 0, errors |-> 0]
    /\ disk = <<>>
    /\ i = 0
    /\ app_name = ""
    /\ type_idx = 0
    /\ ctx = ""
    /\ query = <<>>
    /\ stype = ""
    /\ attempt = 0
    /\ recipes = <<>>
    /\ recipe = NoRecipe
    /\ target = NoRecipe
    /\ dl_ok = FALSE
    /\ downloaded_files = <<>>
    /\ local_paths = <<>>
    /\ parents = <<>>
    /\ p_idx = 0
    /\ searches = <<>>
    /\ fetches = <<>>
    /\ ret = NoResult
    /\ raised = FALSE
    /\ slept = 0
    /\ enable_last_mile = FALSE
    /\ perplexity_api_key = FALSE
    /\ apps_without_recipes = <<>>
    /\ lm_i = 0
    /\ last_mile_results = <<>>
    /\ download_info = None
    /\ polls = 0
    /\ recipe_result = NoRecipeResult
    /\ calls = <<>>
    /\ html = <<>>
    /\ rows_done = 0

\* what a get_contents call leaves alone
mergeFrame == <<apps, results, stats, disk, i, app_name, type_idx, ctx, query, stype, attempt,
                recipes, recipe, chainVars, searches, fetches, ret, raised, slept, lmVars,
                parseVars>>

\* get_contents: one turn of the loop over paths
GetContentsNextPath ==
    /\ pc = "merge"
    /\ paths_done < Len(paths)
    /\ \E contents \in _add_contents(paths[paths_done + 1]) :
          return_dict' = MergeContents(return_dict, contents)
    /\ paths_done' = paths_done + 1
    /\ UNCHANGED <<pc, paths, mergeFrame>>

\* get_contents: return return_dict
GetContentsReturn ==
    /\ pc = "merge"
    /\ paths_done = Len(paths)
    /\ pc' = "merged"
    /\ UNCHANGED <<paths, return_dict, paths_done, mergeFrame>>

MergeNext ==
    \/ GetContentsNextPath
    \/ GetContentsReturn

MergeSpec == MergeInit /\ [][MergeNext]_vars

\* ---------------------------------------------- find_download_url alone
\* a call find_download_url(app_name) made by process_application for the
\* one row of the list, a row that has a name
FindDownloadUrlInit ==
    /\ apps_without_recipes \in {<<r>> : r \in {w \in WithoutRecipeRows : w.Application # ""}}
    /\ perplexity_api_key = TRUE
    /\ enable_last_mile = TRUE
    /\ pc = "post"
    /\ calls = <<[fn |-> "find_download_url", row |-> 1]>>
    /\ results = <<>>
    /\ apps = <<>>
    /\ i = 0
    /\ stats = [total |-> 0, found |-> 0, downloaded |-> 0, errors |-> 0]
    /\ disk = <<>>
    /\ app_name = ""
    /\ type_idx = 0
    /\ ctx = ""
    /\ query = <<>>
    /\ stype = ""
    /\ attempt = 0
    /\ recipes = <<>>
    /\ recipe = NoRecipe
    /\ target = NoRecipe
    /\ dl_ok = FALSE
    /\ downloaded_files = <<>>
    /\ local_paths = <<>>
    /\ parents = <<>>
    /\ p_idx = 0
    /\ searches = <<>>
    /\ fetches = <<>>
    /\ ret = NoResult
    /\ raised = FALSE
    /\ slept = 0
    /\ lm_i = 0
    /\ last_mile_results = <<>>
    /\ download_info = None
    /\ polls = 0
    /\ recipe_result = NoRecipeResult
    /\ html = <<>>
    /\ rows_done = 0
    /\ paths = <<>>
    /\ return_dict = EmptyDict
    /\ paths_done = 0

FindDownloadUrlNext ==
    \/ PostRaises
    \/ PostAccepted
    \/ PollWait
    \/ PollCompleted
    \/ PollFailed
    \/ PollPending

\* the call is one thread: it takes its next step as long as it has one,
\* every request it makes returning or raising
FindDownloadUrlSpec ==
    FindDownloadUrlInit /\ [][FindDownloadUrlNext]_vars /\ WF_vars(FindDownloadUrlNext)

\* ================================================================ claims
\* process_application has returned for the current application
Returned == pc \in {"return", "delay"}

ErrorRows == {k \in DOMAIN results : results[k].recipe_name = <<"Error">>}

\* C1: the batch returns exactly one row per input application, the k-th row
\* belonging to the k-th application, whichever applications fail; while the
\* batch runs, one row has been appended per application handled.
C1_OneRowPerApplication ==
    /\ Len(results) = IF pc = "delay" THEN i + 1 ELSE i
    /\ \A k \in DOMAIN results : results[k].Application = apps[k]
    /\ pc = "done" => Len(results) = Len(apps)

\* the batch returned for two applications or more, one with an empty name
\* and one that ended in an error
C1_Witness ==
    /\ pc = "done"
    /\ Len(apps) >= 2
    /\ \E k \in DOMAIN apps : apps[k] = ""
    /\ ErrorRows # {}

\* C2: an exception that leaves the try block of one application gives that
\* application the error outcome (not found, not downloaded, empty lists, a
\* non-empty error text), is counted once in stats["errors"], and the batch
\* still handles every later application.
C2_ExceptionBecomesErrorRow ==
    /\ raised =>
          /\ Returned
          /\ ret.application = app_name
          /\ ret.recipe_name = <<"Error">>
          /\ ~ret.found /\ ~ret.downloaded
          /\ ret.downloaded_files = <<>> /\ ret.local_paths = <<>>
          /\ ret.error # <<>> /\ ret.error[1] # ""
    /\ \A k \in ErrorRows :
          /\ ~results[k].found /\ ~results[k].downloaded
          /\ results[k].downloaded_files = <<>> /\ results[k].local_paths = <<>>
          /\ results[k].error # ""
    /\ stats.errors = Cardinality(ErrorRows) + (IF raised /\ pc = "return" THEN 1 ELSE 0)
    /\ pc = "done" =>
          /\ Len(results) = Len(apps)
          /\ stats.total = Cardinality({k \in DOMAIN apps : apps[k] # ""})

\* the batch returned, an application ended in an error and the next one
\* was found
C2_Witness ==
    /\ pc = "done"
    /\ \E k \in ErrorRows : k + 1 \in DOMAIN results /\ results[k + 1].found

\* C3: the recipe find_best_recipe selects is never one whose deprecated flag
\* is set, that is, whose name contains "deprecated" in any case.
C3_NeverDeprecated ==
    /\ recipe # NoRecipe => ~recipe.deprecated /\ ~ContainsDeprecated(recipe.name)
    /\ \A k \in DOMAIN results :
          results[k].found => ~ContainsDeprecated(results[k].recipe_name)

\* a recipe was selected from a page that lists a deprecated recipe first
C3_Witness ==
    /\ recipe # NoRecipe
    /\ \E k \in DOMAIN searches :
          /\ Len(searches[k].hits) = 2
          /\ searches[k].hits[1].deprecated
          /\ searches[k].hits[2] = recipe

\* C4: when the search for the first-priority type (munki) returned a
\* candidate that is not deprecated, the selected recipe is of type munki;
\* a recipe of another type is selected only after the munki search returned
\* no such candidate.
C4_TypePriority ==
    /\ \A k \in DOMAIN searches :
          ( /\ searches[k].type = "munki"
            /\ \E j \in DOMAIN searches[k].hits : ~searches[k].hits[j].deprecated
            /\ (k < Len(searches) \/ pc # "best") )
          => recipe.type = "munki"
    /\ (recipe # NoRecipe /\ recipe.type # "munki") =>
          \E k \in DOMAIN searches :
              /\ searches[k].type = "munki"
              /\ \A j \in DOMAIN searches[k].hits : searches[k].hits[j].deprecated

\* a munki recipe was selected although the catalog holds a download recipe
\* for the application with more stars
C4_Witness ==
    /\ Returned /\ ret.found /\ ret.recipe_type = "munki"
    /\ \E k \in DOMAIN searches[1].hits :
          /\ searches[1].hits[k] = recipe
          /\ \E h \in Matching(<<app_name>>, "download") : h.stars > searches[1].stars[k]

\* the search of find_best_recipe that the selection was made from
SelectedFrom == searches[type_idx]

C6_NoDuplicateInChain ==
    \A a, b \in DOMAIN downloaded_files :
        a # b => downloaded_files[a] # downloaded_files[b]

\* C7 as stated: when every download succeeded and every parent search found
\* its recipe, every parent named by a fetched file that the catalog holds
\* has been fetched too (the walk went on to the last ancestor).
C7_ChainReachesLastAncestor ==
    ( /\ pc = "return" /\ ~raised /\ ret.downloaded
      /\ \A k \in DOMAIN fetches : fetches[k].ok
      /\ \A k \in DOMAIN searches : searches[k].type = "" => searches[k].hits # <<>> )
    => \A k \in DOMAIN fetches :
          \A n \in DOMAIN get_parent_recipes(disk[fetches[k].path]) :
              LET parent == get_parent_recipes(disk[fetches[k].path])[n] IN
              Matching(parent, "") # {} =>
                  \E g \in DOMAIN fetches : fetches[g].recipe.name = parent

\* C8: when the download of the selected root recipe fails on all 3 attempts,
\* the outcome is found, not downloaded, with empty lists and no error, and
\* nothing else is fetched.
C8_RootDownloadFailure ==
    (Returned /\ fetches # <<>> /\ ~fetches[1].ok) =>
        /\ fetches[1].attempts = 3
        /\ Len(fetches) = 1
        /\ ~raised
        /\ ret.found /\ ~ret.downloaded
        /\ ret.recipe_name = recipe.name
        /\ ret.downloaded_files = <<>> /\ ret.local_paths = <<>>
        /\ ret.error = <<>>
        /\ pc = "delay" =>
              /\ results[i + 1].found /\ ~results[i + 1].downloaded
              /\ results[i + 1].downloaded_files = <<>>
              /\ results[i + 1].local_paths = <<>>
              /\ results[i + 1].error = ""

\* the root download of a selected recipe failed and the row was appended
C8_Witness ==
    /\ pc = "delay"
    /\ recipe # NoRecipe
    /\ fetches # <<>> /\ ~fetches[1].ok
    /\ results[i + 1].found

\* C9: an outcome that is not found has no recipe and empty lists (and, when
\* it is not an error, no recipe was selected); an outcome that is downloaded
\* is found, has a non-empty chain, and the chain starts with the selected
\* root recipe, whose download succeeded.
C9_OutcomeInvariant ==
    /\ Returned =>
          /\ ~ret.found =>
                /\ ~ret.downloaded
                /\ ret.downloaded_files = <<>> /\ ret.local_paths = <<>>
                /\ ret.recipe_name \in {<<"Not Found">>, <<"Error">>}
                /\ ret.error = <<>> => (recipe = NoRecipe /\ ret.recipe_name = <<"Not Found">>)
          /\ ret.downloaded =>
                /\ ret.found
                /\ recipe # NoRecipe
                /\ ret.recipe_name = recipe.name
                /\ ret.downloaded_files # <<>>
                /\ ret.downloaded_files[1] = recipe.recipe_file
                /\ Len(ret.local_paths) = Len(ret.downloaded_files)
                /\ fetches[1].ok /\ fetches[1].recipe = recipe
    /\ \A k \in DOMAIN results :
          /\ ~results[k].found =>
                (~results[k].downloaded /\ results[k].downloaded_files = <<>>
                 /\ results[k].local_paths = <<>>)
          /\ results[k].downloaded =>
                (results[k].found /\ results[k].downloaded_files # <<>>)

\* a root and its parent were retrieved, after an application that was not
\* found
C9_Witness ==
    /\ pc = "return"
    /\ ret.downloaded
    /\ Len(ret.downloaded_files) = 2
    /\ \E k \in DOMAIN results : ~results[k].found /\ results[k].error = ""

\* the searches made for parent references (no type filter)
ParentSearches == {k \in DOMAIN searches : searches[k].type = ""}

\* the root's file names a parent, every parent reference was searched, and
\* no parent was retrieved: each search returned nothing or the download of
\* its first hit failed
NoParentRetrieved ==
    /\ fetches # <<>> /\ fetches[1].ok
    /\ parents # <<>>
    /\ Cardinality(ParentSearches) = Len(parents)
    /\ \A k \in 2..Len(fetches) : ~fetches[k].ok

\* C10: when the root was fetched and its parent was not found by the search
\* or the parent's download failed on every attempt, the chain is the root
\* alone, the root's file stays on disk and the outcome is found and
\* downloaded.
C10_ParentFailureKeepsRoot ==
    (pc = "return" /\ NoParentRetrieved) =>
        /\ ~raised
        /\ ret.found /\ ret.downloaded
        /\ ret.error = <<>>
        /\ ret.recipe_name = recipe.name
        /\ ret.downloaded_files = <<recipe.recipe_file>>
        /\ ret.local_paths = <<RelativeTo(RecipePath(recipe), output_dir)>>
        /\ RecipePath(recipe) \in DOMAIN disk

\* the root was fetched and the download of its parent failed 3 times
C10_Witness ==
    /\ pc = "return" /\ ~raised /\ NoParentRetrieved
    /\ Len(fetches) = 2
    /\ fetches[2].attempts = 3

\* the root was fetched and the search for its parent returned nothing
C10_WitnessNotFound ==
    /\ pc = "return" /\ ~raised /\ NoParentRetrieved
    /\ Len(fetches) = 1
    /\ searches[Len(searches)].type = "" /\ searches[Len(searches)].hits = <<>>


\* C11: one call of search_autopkg_web makes at most 3 attempts; a failed
\* attempt that is not the third is followed by a sleep of the retry delay
\* (2 seconds) and then by the next attempt; a successful attempt ends the
\* call with the parsed page; the third failed attempt ends the call with
\* the empty list, and no exception is raised by it.
C11_SearchRetryPolicy ==
    [][ /\ (pc = "search" /\ attempt > 0) => slept = 20
        /\ (pc = "search" /\ pc' = "search_wait") => attempt + 1 < 3
        /\ pc = "search_wait" =>
              (pc' = "search" /\ attempt' = attempt + 1 /\ attempt' < 3 /\ slept' = slept + 20)
        /\ (pc = "search" /\ Len(searches') = Len(searches) + 1) =>
              /\ pc' \in {"best", "parent"}
              /\ ~raised'
              /\ recipes' = searches'[Len(searches')].hits
              /\ ~searches'[Len(searches')].ok =>
                    (attempt + 1 = 3 /\ searches'[Len(searches')].hits = <<>>)
      ]_vars

\* a search call returned the empty list after its third failed attempt
C11_Witness ==
    /\ pc \in {"best", "parent"}
    /\ ~searches[Len(searches)].ok
    /\ recipes = <<>>
    /\ attempt = 2
    /\ ~raised

\* C12 as stated: when a search call starts after an earlier search call of
\* the run, at least the request delay (0.5 seconds) has been slept since
\* the earlier call's last request.
C12_PolitenessDelay ==
    (pc = "search" /\ attempt = 0 /\ (searches # <<>> \/ stats.total >= 2)) => slept >= 5


\* C13 as stated: a file that is on disk is never overwritten: a download
\* whose target path already holds a file does not write (a fetch is logged
\* as ok exactly when its text was written), and every file keeps its text.
C13_NoOverwrite ==
    [][ /\ (Len(fetches') = Len(fetches) + 1 /\ fetches'[Len(fetches')].ok) =>
              fetches'[Len(fetches')].path \notin DOMAIN disk
        /\ \A p \in DOMAIN disk : p \in DOMAIN disk' /\ disk'[p] = disk[p]
      ]_vars

\* a logged fetch that returned True
FetchOk(f) == f.ok

\* C20 as stated: once a fetch of the current application has failed, no
\* parent is searched or fetched any more, and the chain that is returned
\* holds the files of the fetches that succeeded, in their order.
C20_WalkStopsAtFailedFetch ==
    /\ (pc \in {"search", "search_wait", "download", "download_wait"} /\ ctx = "parent") =>
          \A k \in DOMAIN fetches : fetches[k].ok
    /\ (pc = "return" /\ ret.found) =>
          ret.downloaded_files =
              [k \in DOMAIN SelectSeq(fetches, FetchOk) |->
                  SelectSeq(fetches, FetchOk)[k].recipe.recipe_file]

\* the number of path separators in a path
Separators(p) == Cardinality({k \in DOMAIN p : p[k] = "/"})

\* C14 as stated: every file written lies beneath the output root, at
\* <repository dir>/<sanitized name>/<recipe file>.
C14_WritesBeneathOutputRoot ==
    \A p \in DOMAIN disk :
        /\ IsUnder(p, output_dir)
        /\ Separators(RelativeTo(p, output_dir)) = 2


\* a logged search that returned no candidate that is not deprecated
NoCandidate(s) == \A j \in DOMAIN s.hits : s.hits[j].deprecated

\* the result that stands for the outcome not_found
NotFoundOutcome == ~ret.found /\ ret.recipe_name = <<"Not Found">> /\ ret.error = <<>>

\* both types of the priority list were searched, neither search returned a
\* candidate that is not deprecated
EveryTypeWithoutCandidate ==
    /\ Len(searches) = 2
    /\ searches[1].type = "munki" /\ searches[2].type = "download"
    /\ NoCandidate(searches[1]) /\ NoCandidate(searches[2])

\* C15: when process_application returns for an application with a name, the
\* outcome is not_found exactly when the search of every type of the priority
\* list (munki, download) returned no candidate that is not deprecated; then
\* nothing was selected and no download was attempted, and the found counter
\* is incremented only by a step that selects a recipe, so not for it.
C15_NotFoundExactly ==
    [][ /\ (pc # "return" /\ pc' = "return" /\ app_name' # "") =>
              /\ NotFoundOutcome' <=> EveryTypeWithoutCandidate'
              /\ NotFoundOutcome' => (recipe' = NoRecipe /\ fetches' = <<>>)
        /\ stats'.found # stats.found =>
              (recipe = NoRecipe /\ recipe' # NoRecipe /\ ~recipe'.deprecated)
      ]_vars

\* not_found was returned after a search that listed deprecated recipes only
C15_Witness ==
    /\ pc = "return" /\ app_name # ""
    /\ NotFoundOutcome
    /\ searches[1].hits # <<>>
    /\ stats.found = 0

\* the first candidate lists, in the order given, that holds a recipe that is
\* not deprecated yields the first such recipe of it; no variable of the
\* program is read
ChoiceOf(lists) ==
    LET K == {k \in DOMAIN lists : \E j \in DOMAIN lists[k] : ~lists[k][j].deprecated}
    IN  IF K = {} THEN NoRecipe
        ELSE LET k == CHOOSE k0 \in K : \A m \in K : k0 <= m
                 j == CHOOSE j0 \in DOMAIN lists[k] :
                          /\ ~lists[k][j0].deprecated
                          /\ \A m \in 1..(j0 - 1) : lists[k][m].deprecated
             IN  lists[k][j]

\* a search made by find_best_recipe (searches for parents name no type)
IsTyped(s) == s.type # ""

\* the candidate lists the catalog returned to find_best_recipe, in the
\* order of the searches
CandidateLists ==
    [k \in DOMAIN SelectSeq(searches, IsTyped) |-> SelectSeq(searches, IsTyped)[k].hits]

\* C18: the recipe find_best_recipe returns is a function of the candidate
\* lists returned for the types in priority order and of nothing else
\* (ChoiceOf reads no variable), so two runs that are given the same lists
\* return the same recipe, whatever was processed, counted or written to
\* the output tree before.
C18_ChoiceDependsOnCandidatesOnly ==
    pc # "best" => recipe = ChoiceOf(CandidateLists)

\* the second run for an application selected a recipe whose file the first
\* run had already written
C18_Witness ==
    /\ i = 1 /\ Len(apps) >= 2 /\ apps[1] = apps[2]
    /\ Len(results) = 1 /\ results[1].found
    /\ pc = "download" /\ ctx = "root" /\ fetches = <<>>
    /\ Len(recipes) = 2
    /\ RecipePath(recipe) \in DOMAIN disk

\* C19: find_best_recipe searches munki first and download second; the
\* search of a type starts or has been made only when every search before
\* it returned no candidate that is not deprecated, so no type is searched
\* after the one the selection was made from.
C19_SearchesInPriorityOrder ==
    /\ \A k \in DOMAIN searches :
          IsTyped(searches[k]) =>
              /\ k <= 2
              /\ searches[k].type = <<"munki", "download">>[k]
              /\ searches[k].query = <<app_name>>
              /\ \A j \in 1..(k - 1) : IsTyped(searches[j]) /\ NoCandidate(searches[j])
    /\ (pc \in {"search", "search_wait"} /\ ctx = "best") =>
          /\ recipe = NoRecipe
          /\ Len(searches) < 2
          /\ stype = <<"munki", "download">>[Len(searches) + 1]
          /\ \A j \in DOMAIN searches : NoCandidate(searches[j])

\* the selection was made from the download search, after a munki search
\* that listed deprecated recipes only
C19_Witness ==
    /\ recipe # NoRecipe
    /\ Len(searches) >= 2
    /\ searches[1].hits # <<>>
    /\ searches[2].type = "download"
    /\ recipe = searches[2].hits[1]


\* the catalog outcome of a row is not_found
RowNotFound(r) == ~r.found /\ r.recipe_name = <<"Not Found">> /\ r.error = ""

\* C16 as stated: every call the last-mile run makes to a collaborator
\* (download-URL discovery, recipe authoring, moving the recipes) is made for
\* a row whose catalog outcome is not_found, never for a row whose outcome is
\* found or error.
C16_LastMileOnlyForNotFound ==
    \A k \in DOMAIN calls : RowNotFound(apps_without_recipes[calls[k].row])

\* C17 as stated: what find_download_url returns is a record that carries
\* found, url and type, whatever happened to the requests.
C17_DownloadInfoIsRecord ==
    pc = "info" => {"found", "url", "type"} \subseteq DOMAIN download_info



\* C21: one call of download_recipe_file makes at most 3 attempts and raises
\* nothing; the first attempt whose fetch and write succeed ends the call
\* with True and the file on disk; the call ends with False exactly when the
\* third attempt failed, and then nothing was written; the retry delay
\* (2 seconds) is slept after a failed attempt that is not the last, and not
\* when the call ends.
C21_DownloadRetryPolicy ==
    [][ /\ (pc = "download" /\ pc' = "download_wait") =>
              (attempt + 1 < 3 /\ disk' = disk /\ slept' = slept)
        /\ pc = "download_wait" =>
              (pc' = "download" /\ attempt' = attempt + 1 /\ attempt' < 3
               /\ slept' = slept + 20 /\ fetches' = fetches)
        /\ pc = "download" =>
              (pc' \in {"download_wait", "chain_root", "chain_parent"} /\ raised' = raised)
        /\ (pc = "download" /\ pc' # "download_wait") =>
              /\ Len(fetches') = Len(fetches) + 1
              /\ fetches'[Len(fetches')].attempts = attempt + 1
              /\ attempt + 1 <= 3
              /\ attempt' = attempt
              /\ slept' = slept
              /\ dl_ok' = fetches'[Len(fetches')].ok
              /\ dl_ok' => fetches'[Len(fetches')].path \in DOMAIN disk'
              /\ ~dl_ok' => (attempt + 1 = 3 /\ disk' = disk)
      ]_vars

\* a download returned True at its second attempt
C21_Witness ==
    /\ pc \in {"chain_root", "chain_parent"}
    /\ dl_ok
    /\ fetches[Len(fetches)].attempts = 2
    /\ fetches[Len(fetches)].ok

\* a download returned False after its third attempt
C21_WitnessFalse ==
    /\ pc \in {"chain_root", "chain_parent"}
    /\ ~dl_ok
    /\ fetches[Len(fetches)].attempts = 3



\* the variables of one process_application call hold what they hold when
\* the batch starts
FreshLocals ==
    /\ app_name = "" /\ type_idx = 0 /\ ctx = "" /\ query = <<>> /\ stype = ""
    /\ attempt = 0 /\ recipes = <<>> /\ recipe = NoRecipe /\ target = NoRecipe
    /\ dl_ok = FALSE /\ downloaded_files = <<>> /\ local_paths = <<>>
    /\ parents = <<>> /\ p_idx = 0 /\ ret = NoResult /\ raised = FALSE

\* C23: when the loop of process_applications turns to the next application,
\* nothing of the earlier applications is left in the finder but the result
\* list and the counters; the result list changes only by the append of the
\* row of the application just processed, rows appended earlier stay as they
\* are, and none of the counters total, found, downloaded, errors decreases.
C23_OnlyResultsAndCountersCarried ==
    [][ /\ pc' = "loop" => FreshLocals'
        /\ \/ results' = results
           \/ /\ pc = "return"
              /\ Len(results') = Len(results) + 1
              /\ SubSeq(results', 1, Len(results)) = results
              /\ results'[Len(results')].Application = apps[i + 1]
        /\ pc = "return" => results' # results
        /\ \A c \in {"total", "found", "downloaded", "errors"} : stats'[c] >= stats[c]
      ]_vars

\* the same application was processed twice with different outcomes, and the
\* row of the first stayed
C23_Witness ==
    /\ pc = "loop"
    /\ Len(results) = 2
    /\ results[1].Application = results[2].Application
    /\ results[1].found /\ ~results[2].found
    /\ stats.total = 2 /\ stats.found = 1



\* C24 as stated: get_parent_recipes extracts at most one parent reference
\* from the text of a fetched recipe file, so the walk of one file searches
\* at most one parent.
C24_AtMostOneParentReference ==
    /\ Len(parents) <= 1
    /\ (pc = "search" /\ ctx = "parent") => p_idx <= 1



\* C26 as stated: when process_applications has returned, the counter found
\* equals the number of result rows whose found is true.
C26_FoundCounterMatchesRows ==
    pc = "done" => stats.found = Cardinality({k \in DOMAIN results : results[k].found})



\* the number of applications process_application was called for so far
CalledSoFar == IF pc \in {"loop", "done"} THEN i ELSE i + 1

\* those among them that have a name
NamedSoFar == Cardinality({k \in 1..CalledSoFar : apps[k] # ""})

\* C27: after every step of a batch, downloaded <= found <= total and
\* errors <= total, and total is the number of applications with a name
\* processed so far; the call for an application without a name returns the
\* 'Unknown' row with an error text, changes no counter and makes no search.
C27_CounterInvariant ==
    [][ /\ stats'.downloaded <= stats'.found
        /\ stats'.found <= stats'.total
        /\ stats'.errors <= stats'.total
        /\ stats'.total = NamedSoFar'
        /\ (pc = "loop" /\ i < Len(apps) /\ apps[i + 1] = "") =>
              /\ pc' = "return"
              /\ ret'.application = "Unknown"
              /\ ret'.error # <<>>
              /\ ~ret'.found
              /\ stats' = stats
              /\ searches' = searches
        /\ (pc = "return" /\ apps[i + 1] = "") => (searches = <<>> /\ fetches = <<>>)
      ]_vars

\* the 'Unknown' row is returned for the second application, after a first
\* one with a name was found and downloaded
C27_Witness ==
    /\ pc = "return"
    /\ i = 1
    /\ apps[2] = ""
    /\ ret = UnknownResult
    /\ stats = [total |-> 1, found |-> 1, downloaded |-> 1, errors |-> 0]



\* C28 as stated: every recipe file downloaded for an application, the root
\* or a parent, is the file of a catalog entry that is not deprecated.
C28_NoDeprecatedDownload ==
    \A k \in DOMAIN fetches : fetches[k].ok => ~fetches[k].recipe.deprecated



\* C29 as stated: the merge of the last-mile results into the result list
\* keeps the length of the list and the application of every row, and the
\* rows it changes are rows without a recipe (found false or recipe_name
\* 'Not Found'), also when an application occurs in several rows.
C29_MergeReplacesOnlyRowsWithoutRecipe ==
    [][ (pc = "last_mile" /\ pc' = "exit") =>
           /\ Len(results') = Len(results)
           /\ \A k \in DOMAIN results :
                 /\ results'[k].Application = results[k].Application
                 /\ results'[k] # results[k] => WithoutRecipe(results[k])
      ]_vars

\* C30 as stated: when find_download_url returned None or a record whose
\* found is false, the last-mile result appended for the application has
\* last_mile_success false and last_mile_error 'No direct download URL
\* found', and the recipe-authoring tool is not called.
C30_NoUrlResult ==
    [][ (pc = "info" /\ (download_info = None \/ ~download_info.found)) =>
           /\ Len(last_mile_results') = Len(last_mile_results) + 1
           /\ ~last_mile_results'[Len(last_mile_results')].last_mile_success
           /\ last_mile_results'[Len(last_mile_results')].last_mile_error =
                 "No direct download URL found"
           /\ calls' = calls
      ]_vars



\* a row the loop of the parser gets to the end of
RowParsed(tr) == CellCount(tr) >= 5 /\ ~RowRaises(tr)

\* a row on which no call raises
RowDoesNotRaise(tr) == ~RowRaises(tr)

\* the text of a row's element, the empty string when the row has none
ElementText(tr, key) == IF key \in DOMAIN tr THEN tr[key] ELSE <<>>

\* the recipes are the rows kept, in page order, each field holding its
\* element's text or the empty string
RecipesAre(kept) ==
    /\ Len(recipes) = Len(kept)
    /\ \A k \in DOMAIN kept :
          /\ recipes[k].name = kept[k].name
          /\ recipes[k].type = (IF "badge" \in DOMAIN kept[k] THEN kept[k].badge ELSE "")
          /\ recipes[k].description = ElementText(kept[k], "desc")
          /\ recipes[k].repo = ElementText(kept[k], "repo")
          /\ recipes[k].recipe_file = ElementText(kept[k], "file")
          /\ recipes[k].recipe_file_url = ElementText(kept[k], "href")

\* C22 as stated: no exception leaves _parse_search_results; the rows on
\* which parsing does not raise are all returned, in page order, a missing
\* badge, description, repository link or file link giving the empty string.
C22_EveryOtherRowReturned ==
    /\ ~raised
    /\ pc = "parsed" => RecipesAre(SelectSeq(html, RowDoesNotRaise))

\* C22 amended: no exception leaves _parse_search_results; the rows returned,
\* in page order, are those with at least five cells on which parsing does
\* not raise, a missing badge, description, repository link or file link
\* giving the empty string; a row with fewer than five cells is left out.
C22_RowsWithFiveCellsReturned ==
    /\ ~raised
    /\ pc = "parsed" => RecipesAre(SelectSeq(html, RowParsed))
    /\ pc = "parsed" => recipes = _parse_search_results(html)

\* a page of a short row, a raising row and a row without its elements was
\* parsed into one recipe with empty fields
C22_Witness ==
    /\ pc = "parsed"
    /\ Len(html) = 3
    /\ CellCount(html[1]) < 5
    /\ RowRaises(html[2])
    /\ Len(recipes) = 1
    /\ recipes[1].name = html[3].name
    /\ recipes[1].recipe_file = <<>> /\ recipes[1].repo = <<>> /\ recipes[1].description = <<>>



\* the rows of the page that were parsed into the recipes, in page order
ParsedRows == SelectSeq(html, RowParsed)

\* the type a suffix of the list names
SuffixType(suffix) ==
    CASE suffix = ".download" -> "download"
      [] suffix = ".munki" -> "munki"
      [] suffix = ".pkg" -> "pkg"
      [] suffix = ".install" -> "install"
      [] suffix = ".jss" -> "jss"
      [] suffix = ".jamf" -> "jamf"

\* C25 as stated: the type of a parsed recipe is the text of the row's badge
\* when the row has one; when it has none and the name ends with a suffix of
\* the suffix list, the type is the one that suffix names.
C25_TypeFromBadgeOrSuffix ==
    pc = "parsed" =>
       \A k \in DOMAIN recipes :
          IF "badge" \in DOMAIN ParsedRows[k]
          THEN recipes[k].type = ParsedRows[k].badge
          ELSE \A n \in DOMAIN RECIPE_SUFFIXES :
                  EndsWith(recipes[k].name, RECIPE_SUFFIXES[n]) =>
                     recipes[k].type = SuffixType(RECIPE_SUFFIXES[n])

\* C25 amended: the type of a parsed recipe is the text of the row's badge
\* when the row has one, whatever the suffix of the name; when it has none,
\* the type is the empty string, whatever the suffix of the name.
C25_TypeIsBadgeOrEmpty ==
    pc = "parsed" =>
       \A k \in DOMAIN recipes :
          IF "badge" \in DOMAIN ParsedRows[k]
          THEN recipes[k].type = ParsedRows[k].badge
          ELSE recipes[k].type = ""

\* a row without a badge whose name ends with '.download' was parsed into a
\* recipe of type '', after a row whose badge is not the suffix of its name
C25_Witness ==
    /\ pc = "parsed"
    /\ Len(recipes) = 2
    /\ recipes[1].type = "pkg" /\ EndsWith(recipes[1].name, ".download")
    /\ recipes[2].type = "" /\ EndsWith(recipes[2].name, ".download")
    /\ "badge" \notin DOMAIN ParsedRows[2]



\* the last tokens of a path are the tokens of a file name
PathEndsWith(path, file) ==
    /\ Len(path) >= Len(file)
    /\ SubSeq(path, Len(path) - Len(file) + 1, Len(path)) = file

\* C36: at every head of the loop over the parents, and when
\* _download_recipe_chain returns, its two lists have the same length, the
\* k-th local path is the path of the k-th downloaded file below the output
\* root, and a list that is not empty starts with the entry of the root.
C36_ChainListsAligned ==
    (pc = "chain_loop" \/ (pc = "return" /\ ret.found)) =>
       /\ Len(downloaded_files) = Len(local_paths)
       /\ \A k \in DOMAIN downloaded_files :
             /\ PathEndsWith(local_paths[k], downloaded_files[k])
             /\ PathJoin(output_dir, local_paths[k]) \in DOMAIN disk
       /\ downloaded_files # <<>> =>
             /\ downloaded_files[1] = recipe.recipe_file
             /\ local_paths[1] = RelativeTo(RecipePath(recipe), output_dir)
       /\ (pc = "return" /\ ret.found) =>
             (ret.downloaded_files = downloaded_files /\ ret.local_paths = local_paths)

\* the chain returned the root and one parent
C36_Witness ==
    /\ pc = "return"
    /\ ret.found
    /\ Len(ret.downloaded_files) = 2
    /\ Len(ret.local_paths) = 2
    /\ ret.downloaded_files[1] # ret.downloaded_files[2]



\* C31: the recipe-authoring tool is run only when find_download_url gave a
\* record with found true, and the created files are moved only when the
\* tool reported success; in the log of collaborator calls a create_recipes
\* call directly follows the find_download_url call of the same row, and a
\* move_recipes_to_target call directly follows the create_recipes call of
\* the same row.
C31_LastMileStepsGated ==
    /\ pc \in {"robot", "move"} => (download_info # None /\ download_info.found)
    /\ pc = "move" => (recipe_result.success /\ calls[Len(calls)].fn = "create_recipes")
    /\ \A k \in DOMAIN calls :
          /\ calls[k].fn = "create_recipes" =>
                (k > 1 /\ calls[k - 1] = [fn |-> "find_download_url", row |-> calls[k].row])
          /\ calls[k].fn = "move_recipes_to_target" =>
                (k > 1 /\ calls[k - 1] = [fn |-> "create_recipes", row |-> calls[k].row])
          /\ calls[k].fn = "find_download_url" =>
                \A j \in 1..(k - 1) : calls[j].row < calls[k].row

\* one application went through the three steps, and its run succeeded
C31_Witness ==
    /\ pc = "last_mile"
    /\ Len(calls) = 3
    /\ calls[1].fn = "find_download_url"
    /\ calls[2].fn = "create_recipes"
    /\ calls[3].fn = "move_recipes_to_target"
    /\ Len(last_mile_results) = 1
    /\ last_mile_results[1].last_mile_success

\* the row has an application name
HasName(r) == r.Application # ""

\* the rows process_last_mile_apps makes a result for, in input order
NamedRows == SelectSeq(apps_without_recipes, HasName)

\* C33: a last-mile result has found and downloaded true when its run
\* succeeded and a recipe file was moved into the output tree; every other
\* last-mile result (a failed run, a run that moved no file, the row of an
\* exception) has the found and downloaded values of the row it was made
\* from.
C33_FoundOnlyWithMovedFile ==
    \A k \in DOMAIN last_mile_results :
       LET r == last_mile_results[k]
           o == NamedRows[k]
       IN  IF r.last_mile_success /\ "recipe_paths" \in DOMAIN r /\ r.recipe_paths # <<>>
           THEN /\ r.found /\ r.downloaded
                /\ PathJoin(output_dir, r.recipe_paths) \in DOMAIN disk
           ELSE r.found = o.found /\ r.downloaded = o.downloaded

\* a run that succeeded without moving a file left the row not found, and a
\* run that moved a file made its row found
C33_Witness ==
    /\ Len(last_mile_results) = 2
    /\ last_mile_results[1].last_mile_success
    /\ last_mile_results[1].recipe_paths = <<>>
    /\ ~last_mile_results[1].found
    /\ last_mile_results[2].last_mile_success
    /\ last_mile_results[2].found /\ last_mile_results[2].downloaded



C34_WitnessCompleted ==
    /\ pc = "info"
    /\ polls = 3
    /\ download_info # None
    /\ download_info.found



\* the rows with a name among the first n rows given, in input order
NamedAmongFirst(n) == SelectSeq(SubSeq(apps_without_recipes, 1, n), HasName)

\* the result of a row whose processing raised: the row and three keys
IsErrorRow(r) == "download_url" \notin DOMAIN r

C32_WitnessNoKey ==
    /\ pc = "returned"
    /\ ~perplexity_api_key
    /\ Len(last_mile_results) = 2
    /\ ~HasName(last_mile_results[1])



\* the paths, below their directory, of the files of all directories
AllRelativePaths == UNION {DOMAIN paths[k].files : k \in DOMAIN paths}

\* the directories that hold a file at the relative path
Holders(rel) == {k \in DOMAIN paths : rel \in DOMAIN paths[k].files}

\* the directory whose file at the relative path is to be kept: none of the
\* holders has a later modification time, and of those with the same time it
\* is the one listed first
Keeper(rel) ==
    CHOOSE k \in Holders(rel) :
       \A j \in Holders(rel) :
          \/ paths[j].files[rel] < paths[k].files[rel]
          \/ (paths[j].files[rel] = paths[k].files[rel] /\ k <= j)

\* C35: get_contents returns one entry per relative path of a file of the
\* directories given, and the entry of a path is the file of the directory
\* that holds the latest modification time for it, the earliest-listed one
\* among directories with equal times.
C35_LatestModificationKept ==
    pc = "merged" =>
       /\ DOMAIN return_dict = AllRelativePaths
       /\ \A rel \in AllRelativePaths :
             return_dict[rel].original_path = paths[Keeper(rel)].base \o <<"/">> \o rel

====
